---- MODULE Spec2Model ----
(***************************************************************************)
(* Verification model of the repeater experiment framework:                *)
(*   - the trigger Code Allocator      (paradigm/utils/trigger_utils.py)   *)
(*   - the Trigger Dispatcher          (TriggerHandler, biosemi_utils.py)  *)
(*   - the block/session runners       (semantic_paradigm_live.py,         *)
(*                                      semantic_paradigm_simulation.py)   *)
(*   - the Ground-Truth Expander       (generate_ground_truth_triggers.py) *)
(*   - the Validator/Aligner           (validate_against_ground_truth.py)  *)
(* Python sequences are 0-based; the model's sequences are 1-based, so a   *)
(* Python index k is the model index k+1.                                  *)
(***************************************************************************)
EXTENDS Integers, Sequences, FiniteSets, TLC

VARIABLES
    \* --- allocator harness: two queried event identities and their codes
    evA, evB, codeA, codeB,
    \* and one beep query: the arguments given to get_beep_code and
    \* get_beep_codes with what each returned
    beepCall,
    \* --- aligner harness: inputs and result of align_triggers_sequential
    expected, observed, alignments, alignPc,
    \* --- dispatcher: the TriggerHandler object, the process-wide serial port
    \* of biosemi_utils, the CSV mirror-log files on disk, the operations that
    \* reached the hardware, and (history) the send_trigger calls made
    handler, serial_port, csvFiles, hwTrace, calls,
    \* --- session: which runner is used, the subject folder on disk (block
    \* folders, protocol file), the running process (pc, run), and history:
    \* how each run ended, how often a protocol was saved, which block indices
    \* were started, and every code handed to the hardware path
    mode, blocks, protocolFile, pc, run, runLog, nSaves, started, dispatched,
    \* --- generator harness: the arguments of create_stratified_block_sequence,
    \* what hash() returned for a seed string in each interpreter process, what
    \* the numpy generator produced from each of its states, the generator's
    \* state in each process, and (history) the calls made and their results
    genArgs, hashMemo, rngMemo, rngState, genCalls,
    \* --- tracker harness: the entries of a subject folder in iterdir order
    \* with the results of find_block_folders and get_next_block_number, and a
    \* generated protocol with the file it is saved to and what is loaded back
    subjectDir, foundBlocks, nextBlock, genProtocol, trkFile, loaded, trkPc,
    \* the files inside each entry of the subject folder, and (history) the
    \* ensure_block_folder calls made on it
    dirContents, ensured,
    \* --- parcelling harness: the rows of the mirror log of one block, the
    \* run that wrote them, and the result of parcel_triggers_into_trials
    triggers, parcelArgs, parcels, parcelPc

allocVars == <<evA, evB, codeA, codeB, beepCall>>
alignVars == <<expected, observed, alignments, alignPc>>
dispVars == <<handler, serial_port, csvFiles, hwTrace, calls>>
sessVars == <<mode, blocks, protocolFile, pc, run, runLog, nSaves, started, dispatched>>
genVars == <<genArgs, hashMemo, rngMemo, rngState, genCalls>>
trackVars ==
    <<subjectDir, foundBlocks, nextBlock, genProtocol, trkFile, loaded, trkPc,
      dirContents, ensured>>
parcelVars == <<triggers, parcelArgs, parcels, parcelPc>>
vars == <<allocVars, alignVars, dispVars, sessVars, genVars, trackVars, parcelVars>>

(***************************************************************************)
(* Generic helpers                                                         *)
(***************************************************************************)
SeqsUpTo(S, n) == UNION {[1..k -> S] : k \in 0..n}

MinOf(S) == CHOOSE x \in S : \A y \in S : x <= y

MaxOf(S) == CHOOSE x \in S : \A y \in S : x >= y

(***************************************************************************)
(* Code Allocator (trigger_utils.py)                                       *)
(***************************************************************************)
\* A Python `raise ValueError(...)`: the call returns no code.
ValueError == -1

MAX_TRIAL_NUM == 99
MAX_BLOCK_NUM == 9
MAX_BEEPS == 8

TRIGGER_CODES ==
    [trial_start |-> 2, fixation |-> 1,
     concept_category_a |-> 10, concept_category_b |-> 20,
     beep_start |-> 30,
     beep_1 |-> 31, beep_2 |-> 32, beep_3 |-> 33, beep_4 |-> 34,
     beep_5 |-> 35, beep_6 |-> 36, beep_7 |-> 37, beep_8 |-> 38,
     trial_end |-> 40,
     block_start |-> 50, block_end |-> 51]

\* The keys of TRIGGER_CODES other than beep_1..beep_8 (the fixed base codes).
BaseNames ==
    <<"trial_start", "fixation", "concept_category_a", "concept_category_b",
      "beep_start", "trial_end", "block_start", "block_end">>

\* The beep_N keys of TRIGGER_CODES, by beep number.
BeepNames ==
    <<"beep_1", "beep_2", "beep_3", "beep_4", "beep_5", "beep_6", "beep_7", "beep_8">>

get_trial_start_code(trial_num) ==
    IF trial_num < 1 \/ trial_num > MAX_TRIAL_NUM THEN ValueError
    ELSE 100 + trial_num

get_trial_end_code(trial_num) ==
    IF trial_num < 1 \/ trial_num > MAX_TRIAL_NUM THEN ValueError
    ELSE 200 + trial_num

get_block_start_code(block_num) ==
    IF block_num < 1 \/ block_num > MAX_BLOCK_NUM THEN ValueError
    ELSE 150 + block_num

\* Mutation of get_block_end_code: the upper limit is not checked.
get_block_end_code_NoUpperLimit(block_num) ==
    IF block_num < 1 THEN ValueError
    ELSE 250 + block_num

get_block_end_code(block_num) ==
    IF block_num < 1 \/ block_num > MAX_BLOCK_NUM THEN ValueError
    ELSE 250 + block_num

get_beep_code(beep_num, max_beeps) ==
    IF beep_num < 1 \/ beep_num > max_beeps THEN ValueError
    ELSE 30 + beep_num

\* Returns the list of beep codes, or <<ValueError>> when the call raises.
get_beep_codes(n_beeps, max_beeps) ==
    IF n_beeps < 1 \/ n_beeps > max_beeps THEN <<ValueError>>
    ELSE [i \in 1..n_beeps |-> get_beep_code(i, max_beeps)]

\* Bounds of the indices the harness asks the allocator about (one past each
\* supported maximum, and 0 below each minimum).
MaxTrialQuery == 100
MaxBlockQuery == 10
MaxBeepQuery == 9

\* An event identity is <<kind, n>>; for kind "base", n indexes BaseNames.
AllocEvents ==
    ({"base"} \X (1..Len(BaseNames)))
    \cup ({"beep"} \X (0..MaxBeepQuery))
    \cup ({"trial_start", "trial_end"} \X (0..MaxTrialQuery))
    \cup ({"block_start", "block_end"} \X (0..MaxBlockQuery))

AllocCode(e) ==
    CASE e[1] = "base" -> TRIGGER_CODES[BaseNames[e[2]]]
      [] e[1] = "beep" -> get_beep_code(e[2], MAX_BEEPS)
      [] e[1] = "trial_start" -> get_trial_start_code(e[2])
      [] e[1] = "trial_end" -> get_trial_end_code(e[2])
      [] e[1] = "block_start" -> get_block_start_code(e[2])
      [] e[1] = "block_end" -> get_block_end_code(e[2])

NoEvent == <<"none", 0>>

\* The max_beeps arguments the harness passes: the default and a smaller one.
MaxBeepsArgs == {MAX_BEEPS, 4}

NoBeepCall == [n |-> 0, max_beeps |-> 0, code |-> ValueError, codes |-> <<>>]

AllocInit ==
    /\ evA = NoEvent
    /\ evB = NoEvent
    /\ codeA = ValueError
    /\ codeB = ValueError
    /\ beepCall = NoBeepCall

\* The harness asks the allocator for the codes of two event identities.
AllocQuery ==
    /\ evA = NoEvent
    /\ beepCall = NoBeepCall
    /\ \E a \in AllocEvents, b \in AllocEvents :
        /\ evA' = a
        /\ evB' = b
        /\ codeA' = AllocCode(a)
        /\ codeB' = AllocCode(b)
    /\ UNCHANGED <<beepCall, alignVars, dispVars, sessVars, genVars, trackVars, parcelVars>>

\* The harness calls get_beep_code(n, max_beeps) and
\* get_beep_codes(n, max_beeps) with the same arguments.
AllocBeepQuery ==
    /\ evA = NoEvent
    /\ beepCall = NoBeepCall
    /\ \E n \in 0..MaxBeepQuery, max_beeps \in MaxBeepsArgs :
        beepCall' = [n |-> n, max_beeps |-> max_beeps,
                     code |-> get_beep_code(n, max_beeps),
                     codes |-> get_beep_codes(n, max_beeps)]
    /\ UNCHANGED <<evA, evB, codeA, codeB, alignVars, dispVars, sessVars,
                   genVars, trackVars, parcelVars>>

(***************************************************************************)
(* Validator/Aligner (validate_against_ground_truth.py)                    *)
(***************************************************************************)
\* Python None for observed_code.
NoneCode == -1

\* match_idx = None, as a model index.
NoMatch == 0

\* Mutation of ScanStart: every scan restarts at the first observed entry.
ScanStart_FromFirst(observed_idx) == 1

\* range(observed_idx, len(observed)): the scan starts at observed_idx.
ScanStart(observed_idx) == observed_idx

\* First obs_idx in range(observed_idx, len(observed)) whose code equals
\* expected_code; NoMatch when the inner loop ends without a break.
FirstMatch(obs, observed_idx, expected_code) ==
    LET hits == {k \in ScanStart(observed_idx)..Len(obs) : obs[k] = expected_code}
    IN IF hits = {} THEN NoMatch ELSE MinOf(hits)

\* Mutation of NextObservedIdx: the matched entry is not consumed.
NextObservedIdx_NoAdvance(obs_idx) == obs_idx

\* observed_idx = obs_idx + 1  ("Move forward")
NextObservedIdx(obs_idx) == obs_idx + 1

RECURSIVE AlignFrom(_, _, _, _)
AlignFrom(gt, obs, gt_idx, observed_idx) ==
    IF gt_idx > Len(gt) THEN <<>>
    ELSE
        LET expected_code == gt[gt_idx]
            match_idx == FirstMatch(obs, observed_idx, expected_code)
            found == match_idx # NoMatch
            row == [sequence_position |-> gt_idx,
                    expected_code |-> expected_code,
                    observed_code |-> IF found THEN obs[match_idx] ELSE NoneCode,
                    position_match |-> found,
                    code_match |-> found /\ obs[match_idx] = expected_code,
                    match_idx |-> match_idx]
        IN <<row>> \o AlignFrom(gt, obs, gt_idx + 1,
                                IF found THEN NextObservedIdx(match_idx)
                                ELSE observed_idx)

align_triggers_sequential(ground_truth, obs) == AlignFrom(ground_truth, obs, 1, 1)

\* Mutation of ValidationStats: the extra count is taken from the missing
\* counter.
ValidationStats_ExtraIsMissing(al, obs) ==
    LET matched == Cardinality({i \in 1..Len(al) : al[i].code_match})
        missing == Cardinality({i \in 1..Len(al) : ~al[i].position_match})
    IN [total_expected |-> Len(al),
        total_observed |-> Len(obs),
        matched |-> matched,
        missing |-> missing,
        extra |-> missing]

\* Mutation of ValidationStats: the missing count is what is left of the
\* observed entries after the matches.
ValidationStats_MissingFromObserved(al, obs) ==
    LET matched == Cardinality({i \in 1..Len(al) : al[i].code_match})
    IN [total_expected |-> Len(al),
        total_observed |-> Len(obs),
        matched |-> matched,
        missing |-> Len(obs) - matched,
        extra |-> Len(obs) - matched]

\* The statistics validate_against_ground_truth derives from the alignments.
ValidationStats(al, obs) ==
    LET matched == Cardinality({i \in 1..Len(al) : al[i].code_match})
        missing == Cardinality({i \in 1..Len(al) : ~al[i].position_match})
    IN [total_expected |-> Len(al),
        total_observed |-> Len(obs),
        matched |-> matched,
        missing |-> missing,
        extra |-> Len(obs) - matched]

\* Bounds of the aligner harness.
MaxAlignCode == 3
MaxAlignLen == 3

AlignInit ==
    /\ expected \in SeqsUpTo(1..MaxAlignCode, MaxAlignLen)
    /\ observed \in SeqsUpTo(1..MaxAlignCode, MaxAlignLen)
    /\ alignments = <<>>
    /\ alignPc = "input"

AlignIdle ==
    /\ expected = <<>>
    /\ observed = <<>>
    /\ alignments = <<>>
    /\ alignPc = "idle"

Align ==
    /\ alignPc = "input"
    /\ alignments' = align_triggers_sequential(expected, observed)
    /\ alignPc' = "done"
    /\ UNCHANGED <<expected, observed, allocVars, dispVars, sessVars, genVars, trackVars, parcelVars>>

(***************************************************************************)
(* Trigger Dispatcher (trigger_utils.TriggerHandler, biosemi_utils.py)     *)
(*                                                                         *)
(* File operations on the mirror log (open, writerow, flush) are taken to  *)
(* succeed; the hardware write is what may fail.                           *)
(***************************************************************************)
\* What the environment does to one hardware write:
\*   "ok"          every step succeeds
\*   "fail_before" the write itself raises, no byte leaves
\*   "fail_after"  the byte is written, a later step (flush, reset) raises
HwOutcomes == {"ok", "fail_before", "fail_after"}

\* Python None / empty event_name.
NoName == ""

HwOp(ch, op, code) == [ch |-> ch, op |-> op, code |-> code]

\* open_serial_port: serial.Serial(...) either succeeds, and the module's
\* _serial_port is the new open port, or raises, and _serial_port is left as
\* it was.  `ops` is what reached the serial device.
open_serial_port(port, ok) ==
    IF ok THEN [port |-> "open", ops |-> <<HwOp("serial", "open", 0)>>]
    ELSE [port |-> port, ops |-> <<>>]

\* A close that does not look at the port first.
close_serial_port_Unchecked(port) ==
    [port |-> "None", ops |-> <<HwOp("serial", "close", 0)>>]

\* close_serial_port: returns at once unless _serial_port is an open port;
\* otherwise the port is closed and _serial_port becomes None.
close_serial_port(port) ==
    IF port # "open" THEN [port |-> port, ops |-> <<>>]
    ELSE [port |-> "None", ops |-> <<HwOp("serial", "close", 0)>>]

\* _send_eeg_trigger: <<success, operations that reached the serial line>>
send_eeg_trigger(port, marker_value, hw) ==
    IF port # "open" THEN [ok |-> FALSE, ops |-> <<>>]
    ELSE CASE hw = "ok" ->
                [ok |-> TRUE,
                 ops |-> <<HwOp("serial", "write", marker_value),
                           HwOp("serial", "flush", marker_value)>>]
           [] hw = "fail_before" -> [ok |-> FALSE, ops |-> <<>>]
           [] hw = "fail_after" ->
                [ok |-> FALSE, ops |-> <<HwOp("serial", "write", marker_value)>>]

\* Mutation of send_biosemi_trigger: the settle delay is left out.
send_biosemi_trigger_NoSettle(port, trigger_code, hw) ==
    IF trigger_code < 0 \/ trigger_code > 255 THEN [ok |-> FALSE, ops |-> <<>>]
    ELSE send_eeg_trigger(port, trigger_code, hw)

\* send_biosemi_trigger: range check, write + flush, then the 5 ms settle delay.
send_biosemi_trigger(port, trigger_code, hw) ==
    IF trigger_code < 0 \/ trigger_code > 255 THEN [ok |-> FALSE, ops |-> <<>>]
    ELSE LET r == send_eeg_trigger(port, trigger_code, hw)
         IN IF ~r.ok THEN r
            ELSE [ok |-> TRUE,
                  ops |-> r.ops \o <<HwOp("serial", "sleep", trigger_code)>>]

\* The parallel-port branch of send_trigger: setData(code), hold, setData(0).
send_parallel(trigger_code, hw) ==
    CASE hw = "ok" ->
            [ok |-> TRUE,
             ops |-> <<HwOp("parallel", "write", trigger_code),
                       HwOp("parallel", "sleep", trigger_code),
                       HwOp("parallel", "write", 0)>>]
      [] hw = "fail_before" -> [ok |-> FALSE, ops |-> <<>>]
      [] hw = "fail_after" ->
            [ok |-> FALSE,
             ops |-> <<HwOp("parallel", "write", trigger_code),
                       HwOp("parallel", "sleep", trigger_code)>>]

\* TriggerHandler.__init__: the parallel port is initialised only when
\* triggers are enabled and no Biosemi connection was supplied; `pp_ok` says
\* whether psychopy could open it.
NewHandler(use_triggers, biosemi_connection, csv_path, pp_ok) ==
    LET wants_pp == use_triggers /\ ~biosemi_connection
    IN [alive |-> TRUE,
        use_triggers |-> IF wants_pp /\ ~pp_ok THEN FALSE ELSE use_triggers,
        biosemi_connection |-> biosemi_connection,
        parallel_port |-> wants_pp /\ pp_ok,
        csv_writer |-> csv_path # 0,
        csv_path |-> csv_path,
        trigger_log |-> <<>>]

NoHandler ==
    [alive |-> FALSE, use_triggers |-> FALSE, biosemi_connection |-> FALSE,
     parallel_port |-> FALSE, csv_writer |-> FALSE, csv_path |-> 0,
     trigger_log |-> <<>>]

\* Mutation of SendHardware: a failed Biosemi send is tried a second time.
SendHardware_Retry(h, port, trigger_code, hw) ==
    LET b == IF h.biosemi_connection
             THEN send_biosemi_trigger(port, trigger_code, hw)
             ELSE [ok |-> FALSE, ops |-> <<>>]
        b2 == IF h.biosemi_connection /\ ~b.ok
              THEN send_biosemi_trigger(port, trigger_code, hw)
              ELSE [ok |-> FALSE, ops |-> <<>>]
        p == IF ~b.ok /\ h.use_triggers /\ h.parallel_port
             THEN send_parallel(trigger_code, hw)
             ELSE [ok |-> FALSE, ops |-> <<>>]
    IN [ok |-> b.ok \/ b2.ok \/ p.ok, ops |-> b.ops \o b2.ops \o p.ops]

\* The hardware part of send_trigger: Biosemi first, then the parallel port
\* if Biosemi did not succeed.
SendHardware(h, port, trigger_code, hw) ==
    LET b == IF h.biosemi_connection
             THEN send_biosemi_trigger(port, trigger_code, hw)
             ELSE [ok |-> FALSE, ops |-> <<>>]
        p == IF ~b.ok /\ h.use_triggers /\ h.parallel_port
             THEN send_parallel(trigger_code, hw)
             ELSE [ok |-> FALSE, ops |-> <<>>]
    IN [ok |-> b.ok \/ p.ok, ops |-> b.ops \o p.ops]

\* event_name or f'trigger_{trigger_code}'
EventLabel(trigger_code, event_name) ==
    IF event_name = NoName THEN "trigger_" \o ToString(trigger_code) ELSE event_name

CsvRow(trigger_code, event_name, sent_to_eeg) ==
    [trigger_code |-> trigger_code,
     event_name |-> EventLabel(trigger_code, event_name),
     sent_to_eeg |-> IF sent_to_eeg THEN "yes" ELSE "no"]

\* Mutation of WriteRow: only triggers that reached the hardware are logged.
WriteRow_OnlySent(rows, row) ==
    IF row.sent_to_eeg = "yes" THEN Append(rows, row) ELSE rows

\* csv_writer.writerow(row); csv_file.flush()
WriteRow(rows, row) == Append(rows, row)

\* _log_trigger_to_csv: nothing happens without a csv_writer.
log_trigger_to_csv(files, h, trigger_code, event_name, sent_to_eeg) ==
    IF h.csv_writer
    THEN [files EXCEPT ![h.csv_path] =
              WriteRow(@, CsvRow(trigger_code, event_name, sent_to_eeg))]
    ELSE files

\* open(csv_log_path, 'w'): the file is created, or truncated if it exists.
OpenCsvForWriting(files, csv_path) ==
    IF csv_path = 0 THEN files
    ELSE IF csv_path > Len(files) THEN Append(files, <<>>)
    ELSE [files EXCEPT ![csv_path] = <<>>]

\* send_trigger(trigger_code, event_name=event_name) on the current handler.
SendTrigger(trigger_code, event_name, hw) ==
    LET r == SendHardware(handler, serial_port, trigger_code, hw)
    IN /\ hwTrace' = hwTrace \o r.ops
       /\ csvFiles' = log_trigger_to_csv(csvFiles, handler, trigger_code,
                                         event_name, r.ok)
       /\ handler' = [handler EXCEPT !.trigger_log =
                          Append(@, [trigger_code |-> trigger_code,
                                     event_name |-> EventLabel(trigger_code, event_name),
                                     sent_to_eeg |-> r.ok])]
       /\ calls' = Append(calls, [code |-> trigger_code, name |-> event_name])

\* TriggerHandler.close(): resets the parallel port and closes the CSV file.
CloseHandler(h) ==
    [h EXCEPT !.parallel_port = FALSE, !.csv_writer = FALSE]

\* Bounds and inputs of the dispatcher harness.
MaxCalls == 3

DispCodes == {31, 256}

DispNames == {NoName, "evt"}

DispInit ==
    /\ \E use \in BOOLEAN, bio \in BOOLEAN, csv \in 0..1, pp \in BOOLEAN :
        handler = NewHandler(use, bio, csv, pp)
    /\ serial_port \in {"None", "open"}
    /\ csvFiles = OpenCsvForWriting(<<>>, handler.csv_path)
    /\ hwTrace = <<>>
    /\ calls = <<>>

DispIdle ==
    /\ handler = NoHandler
    /\ serial_port = "None"
    /\ csvFiles = <<>>
    /\ hwTrace = <<>>
    /\ calls = <<>>

DispSend ==
    /\ Len(calls) < MaxCalls
    /\ \E c \in DispCodes, n \in DispNames, hw \in HwOutcomes : SendTrigger(c, n, hw)
    /\ UNCHANGED <<serial_port, allocVars, alignVars, sessVars, genVars, trackVars, parcelVars>>

\* open_serial_port() succeeding / close_serial_port() between sends; this
\* harness keeps only the sends in its hardware trace.
DispOpenPort ==
    /\ serial_port = "None"
    /\ serial_port' = open_serial_port(serial_port, TRUE).port
    /\ UNCHANGED <<handler, csvFiles, hwTrace, calls, allocVars, alignVars, sessVars, genVars, trackVars, parcelVars>>

DispClosePort ==
    /\ serial_port = "open"
    /\ serial_port' = close_serial_port(serial_port).port
    /\ UNCHANGED <<handler, csvFiles, hwTrace, calls, allocVars, alignVars, sessVars, genVars, trackVars, parcelVars>>

DispClose ==
    /\ handler.csv_writer \/ handler.parallel_port
    /\ handler' = CloseHandler(handler)
    /\ UNCHANGED <<serial_port, csvFiles, hwTrace, calls, allocVars, alignVars, sessVars, genVars, trackVars, parcelVars>>

\* Port harness: the life of the serial port in a process that uses Biosemi.
\* open_serial_port and close_serial_port are called in any state of the
\* port, sends come at any time, and the trace records the opens and closes
\* that reached the device along with the sends.
MaxPortOps == 2

\* The opens and closes that reached the serial device.
PortOps(trace) == SelectSeq(trace, LAMBDA o : o.op \in {"open", "close"})

PortInit ==
    /\ \E csv \in 0..1 : handler = NewHandler(TRUE, TRUE, csv, FALSE)
    /\ serial_port = "None"
    /\ csvFiles = OpenCsvForWriting(<<>>, handler.csv_path)
    /\ hwTrace = <<>>
    /\ calls = <<>>

PortOpen ==
    /\ Len(PortOps(hwTrace)) < MaxPortOps
    /\ \E ok \in BOOLEAN :
        LET r == open_serial_port(serial_port, ok)
        IN serial_port' = r.port /\ hwTrace' = hwTrace \o r.ops
    /\ UNCHANGED <<handler, csvFiles, calls, allocVars, alignVars, sessVars, genVars, trackVars, parcelVars>>

PortClose ==
    /\ Len(PortOps(hwTrace)) < MaxPortOps
    /\ LET r == close_serial_port(serial_port)
       IN serial_port' = r.port /\ hwTrace' = hwTrace \o r.ops
    /\ UNCHANGED <<handler, csvFiles, calls, allocVars, alignVars, sessVars, genVars, trackVars, parcelVars>>

(***************************************************************************)
(* Protocol Generator (randomization_utils.py, the runners' first run)     *)
(***************************************************************************)
Min2(a, b) == IF a < b THEN a ELSE b

Max2(a, b) == IF a > b THEN a ELSE b

\* The participant of the session and the timestamp in the name of the
\* subject folder (sub-<participant>_<YYYYMMDD>_<HHMMSS>).
PARTICIPANT_ID == "p1"

SUBJECT_TIMESTAMP == "20260101_120000"

\* config['CONCEPTS_CATEGORY_A'] / ['CONCEPTS_CATEGORY_B'] of the session.
CONCEPTS_CATEGORY_A == <<"a1", "a2">>

CONCEPTS_CATEGORY_B == <<"b1">>

\* [concept] * n
Repeat(x, n) == [i \in 1..n |-> x]

\* for concept in concepts: concept_list.extend([concept] * k)
RECURSIVE ExtendEach(_, _)
ExtendEach(concepts, k) ==
    IF concepts = <<>> THEN <<>>
    ELSE Repeat(Head(concepts), k) \o ExtendEach(Tail(concepts), k)

Injections(n, m) ==
    {f \in [1..n -> 1..m] : \A i, j \in 1..n : i # j => f[i] # f[j]}

\* Mutation of RandomChoices: the draw is made with replacement.
RandomChoices_WithReplacement(concepts, r) ==
    {[i \in 1..r |-> concepts[f[i]]] : f \in [1..r -> 1..Len(concepts)]}

\* np.random.choice(concepts, r, replace=False): r distinct entries, any order.
RandomChoices(concepts, r) ==
    {[i \in 1..r |-> concepts[f[i]]] : f \in Injections(r, Len(concepts))}

\* np.random.shuffle(list): any permutation of the list.
Shuffles(list) ==
    {[i \in 1..Len(list) |-> list[f[i]]] : f \in Injections(Len(list), Len(list))}

\* Mutation of Remainder: trials that do not divide evenly are left out.
Remainder_None(trials_per_category, concept_list) == 0

\* remainder = trials_per_category - len(concept_list)
Remainder(trials_per_category, concept_list) ==
    trials_per_category - Len(concept_list)

\* The shuffled concept list of one category: floor share of every concept,
\* the remainder drawn without replacement, then shuffled.
ConceptLists(concepts, trials_per_category) ==
    LET base == ExtendEach(concepts, trials_per_category \div Len(concepts))
        remainder == Remainder(trials_per_category, base)
        extras == IF remainder > 0 THEN RandomChoices(concepts, remainder) ELSE {<<>>}
    IN UNION {Shuffles(base \o extra) : extra \in extras}

\* The interleaving loop: A[i] then B[i], trial_num = position in the block.
RECURSIVE Interleave(_, _, _, _)
Interleave(list_a, list_b, i, trials) ==
    IF i > Max2(Len(list_a), Len(list_b)) THEN trials
    ELSE LET t1 == IF i <= Len(list_a)
                   THEN Append(trials, [trial_num |-> Len(trials) + 1,
                                        concept |-> list_a[i], category |-> "A"])
                   ELSE trials
             t2 == IF i <= Len(list_b)
                   THEN Append(t1, [trial_num |-> Len(t1) + 1,
                                    concept |-> list_b[i], category |-> "B"])
                   ELSE t1
         IN Interleave(list_a, list_b, i + 1, t2)

\* Mutation of create_stratified_block_sequence: the two shuffled lists are
\* not interleaved, category A is followed by category B.
create_stratified_block_sequence_Blocked(n_trials_per_block, concepts_a, concepts_b) ==
    LET trials_per_category == n_trials_per_block \div 2
    IN {[k \in 1..(Len(la) + Len(lb)) |->
            IF k <= Len(la)
            THEN [trial_num |-> k, concept |-> la[k], category |-> "A"]
            ELSE [trial_num |-> k, concept |-> lb[k - Len(la)], category |-> "B"]] :
            la \in ConceptLists(concepts_a, trials_per_category),
            lb \in ConceptLists(concepts_b, trials_per_category)}

\* create_stratified_block_sequence: the set of sequences the seeded random
\* generator can produce for one block.
create_stratified_block_sequence(n_trials_per_block, concepts_a, concepts_b) ==
    LET trials_per_category == n_trials_per_block \div 2
    IN {Interleave(la, lb, 1, <<>>) :
            la \in ConceptLists(concepts_a, trials_per_category),
            lb \in ConceptLists(concepts_b, trials_per_category)}

\* blocks_to_generate and trials_per_block of the first run.
BlocksToGenerate(n_blocks, n_trials_total) == Min2(n_blocks, n_trials_total)

TrialsPerBlock(n_blocks, n_trials_total) ==
    LET btg == BlocksToGenerate(n_blocks, n_trials_total)
    IN IF btg > 0 THEN Max2(1, n_trials_total \div btg) ELSE 1

\* block_trial_count of block b (0-based); the last generated block takes
\* the remaining trials.
BlockTrialCount(b, n_blocks, n_trials_total) ==
    LET btg == BlocksToGenerate(n_blocks, n_trials_total)
        tpb == TrialsPerBlock(n_blocks, n_trials_total)
    IN IF b = btg - 1 THEN Max2(n_trials_total - tpb * (btg - 1), tpb) ELSE tpb

\* The generation loop: one stratified sequence per generated block, then an
\* empty list for every block beyond blocks_to_generate.
RECURSIVE GenerateBlocks(_, _, _)
GenerateBlocks(b, n_blocks, n_trials_total) ==
    IF b >= n_blocks THEN {<<>>}
    ELSE LET this == IF b < BlocksToGenerate(n_blocks, n_trials_total)
                     THEN create_stratified_block_sequence(
                              BlockTrialCount(b, n_blocks, n_trials_total),
                              CONCEPTS_CATEGORY_A, CONCEPTS_CATEGORY_B)
                     ELSE {<<>>}
         IN {<<bt>> \o rest : bt \in this,
                              rest \in GenerateBlocks(b + 1, n_blocks, n_trials_total)}

\* randomization_data as handed to save_randomization_protocol.
GeneratedProtocols(cfg) ==
    {[all_blocks_trials |-> abt,
      config |-> [N_TRIALS |-> cfg.N_TRIALS, N_BLOCKS |-> cfg.N_BLOCKS,
                  TRIALS_PER_BLOCK |-> TrialsPerBlock(cfg.N_BLOCKS, cfg.N_TRIALS),
                  CONCEPTS_CATEGORY_A |-> CONCEPTS_CATEGORY_A,
                  CONCEPTS_CATEGORY_B |-> CONCEPTS_CATEGORY_B],
      metadata |-> [participant_id |-> PARTICIPANT_ID,
                    timestamp |-> SUBJECT_TIMESTAMP]] :
        abt \in GenerateBlocks(0, cfg.N_BLOCKS, cfg.N_TRIALS)}

(***************************************************************************)
(* Generator harness: calls of create_stratified_block_sequence with one   *)
(* argument tuple, made in one or several interpreter processes.           *)
(*                                                                         *)
(* hash() of a str is salted per interpreter process (unless PYTHONHASHSEED *)
(* fixes it): within a process equal strings hash equally, across          *)
(* processes the values are unrelated.  The numpy generator is a function  *)
(* of its state, the same in every process.  Both are unknown functions,   *)
(* modelled by recording each value the first time it is asked for.        *)
(***************************************************************************)
\* Bounds of the generator harness.
MaxGenTrials == 6
MaxGenCalls == 2
MaxProcs == 2

Procs == 1..MaxProcs

\* The values of hash(seed_str) % (2**31) told apart by the model.
PySeeds == {0, 1}

GenConceptsA == {<<"a1">>, <<"a1", "a2">>, <<"a1", "a2", "a3">>}

GenConceptsB == {<<"b1">>, <<"b1", "b2">>}

\* seed_str = f"{participant_id}_{session_id}_{timestamp}_block{block_num}"
SeedStr(participant_id, session_id, timestamp, block_num) ==
    participant_id \o "_" \o ToString(session_id) \o "_" \o timestamp
        \o "_block" \o ToString(block_num)

\* The state of the global numpy generator: the seed it was last seeded
\* with and the number of sequences drawn since.  A process that never
\* seeded it starts from its own entropy.
Unseeded(p) == [seed |-> 0 - p, draws |-> 0]

\* Mutation of SeedRng: the generator is not re-seeded by the call.
SeedRng_Keep(state, seed) == state

\* np.random.seed(seed)
SeedRng(state, seed) == [seed |-> seed, draws |-> 0]

NoArgs ==
    [n_trials_per_block |-> 0, concepts_a |-> <<>>, concepts_b |-> <<>>,
     block_num |-> 0, participant_id |-> "", session_id |-> 0, timestamp |-> ""]

GenInit ==
    /\ genArgs \in [n_trials_per_block : 1..MaxGenTrials,
                    concepts_a : GenConceptsA,
                    concepts_b : GenConceptsB,
                    block_num : {0},
                    participant_id : {"p1"},
                    session_id : {1},
                    timestamp : {"20260101_120000"}]
    /\ hashMemo = <<>>
    /\ rngMemo = <<>>
    /\ rngState = [p \in Procs |-> Unseeded(p)]
    /\ genCalls = <<>>

GenIdle ==
    /\ genArgs = NoArgs
    /\ hashMemo = <<>>
    /\ rngMemo = <<>>
    /\ rngState = [p \in Procs |-> Unseeded(p)]
    /\ genCalls = <<>>

\* One call create_stratified_block_sequence(**genArgs) in process p: hash
\* the seed string, seed the generator, draw the block's sequence.
GenCall(p) ==
    /\ Len(genCalls) < MaxGenCalls
    /\ LET seed_str == SeedStr(genArgs.participant_id, genArgs.session_id,
                               genArgs.timestamp, genArgs.block_num)
           key == <<p, seed_str>>
       IN \E seed \in PySeeds :
           /\ key \in DOMAIN hashMemo => seed = hashMemo[key]
           /\ hashMemo' = IF key \in DOMAIN hashMemo THEN hashMemo
                           ELSE hashMemo @@ (key :> seed)
           /\ LET st == SeedRng(rngState[p], seed)
              IN \E trials \in create_stratified_block_sequence(
                                   genArgs.n_trials_per_block,
                                   genArgs.concepts_a, genArgs.concepts_b) :
                     /\ st \in DOMAIN rngMemo => trials = rngMemo[st]
                     /\ rngMemo' = IF st \in DOMAIN rngMemo THEN rngMemo
                                    ELSE rngMemo @@ (st :> trials)
                     /\ rngState' = [rngState EXCEPT
                                         ![p] = [st EXCEPT !.draws = @ + 1]]
                     /\ genCalls' = Append(genCalls,
                                           [proc |-> p, trials |-> trials])
    /\ UNCHANGED <<genArgs, allocVars, alignVars, dispVars, sessVars, trackVars, parcelVars>>

GenCalls == \E p \in Procs : GenCall(p)

(***************************************************************************)
(* Session State Tracker (block_utils.py).  A subject folder is listed as  *)
(* a sequence of entries in iterdir order; the session keeps its block     *)
(* folders as the set of their 0-based indices and its protocol file as a  *)
(* sequence of at most one JSON document.                                  *)
(***************************************************************************)
\* "No block yet" in a run's history entry.
NoBlock == -1

\* A directory entry whose name is `stem` followed by `digits` decimal
\* digits that read as `num`.
DirEntry(stem, digits, num, is_dir) ==
    [stem |-> stem, digits |-> digits, num |-> num, is_dir |-> is_dir]

\* get_block_folder_path: f"Block_{block_num:04d}"
get_block_folder_path(block_num) == DirEntry("Block_", 4, block_num, TRUE)

\* item.is_dir() and re.match(r'^Block_(\d{4})$', item.name)
IsBlockFolder(item) == item.is_dir /\ item.stem = "Block_" /\ item.digits = 4

\* The loop over subject_folder.iterdir(): matching entries, in listing order.
RECURSIVE SelectBlockFolders(_)
SelectBlockFolders(listing) ==
    IF listing = <<>> THEN <<>>
    ELSE (IF IsBlockFolder(Head(listing)) THEN <<Head(listing)>> ELSE <<>>)
             \o SelectBlockFolders(Tail(listing))

\* list.sort(key=block number): stable insertion into ascending order.
RECURSIVE InsertByNumber(_, _)
InsertByNumber(sorted, item) ==
    IF sorted = <<>> THEN <<item>>
    ELSE IF item.num < Head(sorted).num THEN <<item>> \o sorted
         ELSE <<Head(sorted)>> \o InsertByNumber(Tail(sorted), item)

RECURSIVE SortByNumber(_)
SortByNumber(items) ==
    IF items = <<>> THEN <<>>
    ELSE InsertByNumber(SortByNumber(SubSeq(items, 1, Len(items) - 1)),
                        items[Len(items)])

find_block_folders(listing) == SortByNumber(SelectBlockFolders(listing))

\* Mutation of get_next_block_number: the next number is the folder count.
get_next_block_number_ByCount(listing) == Len(find_block_folders(listing))

get_next_block_number(listing) ==
    LET block_folders == find_block_folders(listing)
        block_numbers == {block_folders[i].num : i \in 1..Len(block_folders)}
    IN IF block_folders = <<>> THEN 0 ELSE MaxOf(block_numbers) + 1

\* mkdir(parents=True, exist_ok=True)
ensure_block_folder(folders, block_num) == folders \cup {block_num}

\* Two directory entries with the same name.
SameName(a, b) == a.stem = b.stem /\ a.digits = b.digits /\ a.num = b.num

InsertAt(seq, pos, x) == SubSeq(seq, 1, pos - 1) \o <<x>> \o SubSeq(seq, pos, Len(seq))

\* Mutation of Mkdir: exist_ok = False, an existing folder is an error.
Mkdir_ExistNotOk(dir, entry, pos) ==
    LET hits == {i \in 1..Len(dir.listing) : SameName(dir.listing[i], entry)}
    IN IF hits = {}
       THEN [ok |-> TRUE,
             dir |-> [listing |-> InsertAt(dir.listing, pos, entry),
                      contents |-> InsertAt(dir.contents, pos, {})]]
       ELSE [ok |-> FALSE, dir |-> dir]

\* block_folder.mkdir(parents=True, exist_ok=True) on a folder given by its
\* listing and the files inside each entry: a missing folder is created
\* empty (iterdir will show it at `pos`), an existing folder is left alone,
\* an existing file of that name is a FileExistsError.
Mkdir(dir, entry, pos) ==
    LET hits == {i \in 1..Len(dir.listing) : SameName(dir.listing[i], entry)}
    IN IF hits = {}
       THEN [ok |-> TRUE,
             dir |-> [listing |-> InsertAt(dir.listing, pos, entry),
                      contents |-> InsertAt(dir.contents, pos, {})]]
       ELSE IF \A i \in hits : dir.listing[i].is_dir
            THEN [ok |-> TRUE, dir |-> dir]
            ELSE [ok |-> FALSE, dir |-> dir]

\* No path: the call raised.
NoPath == DirEntry("", 0, NoBlock, FALSE)

\* ensure_block_folder on a listed folder: the path it returns and the folder
\* afterwards.
ensure_block_folder_in(dir, block_num, pos) ==
    LET block_folder == get_block_folder_path(block_num)
        made == Mkdir(dir, block_folder, pos)
    IN [ok |-> made.ok,
        path |-> IF made.ok THEN block_folder ELSE NoPath,
        dir |-> made.dir]

\* subject_folder.iterdir() for a session's folder: its block folders, in
\* some order.
RECURSIVE IterDir(_)
IterDir(folders) ==
    IF folders = {} THEN <<>>
    ELSE LET n == CHOOSE n \in folders : TRUE
         IN <<get_block_folder_path(n)>> \o IterDir(folders \ {n})

\* JSON text as a value: objects keep their members in insertion order.
JsonObject(members) == [j |-> "object", members |-> members]

JsonArray(items) == [j |-> "array", items |-> items]

Member(obj, key) ==
    obj.members[CHOOSE i \in 1..Len(obj.members) : obj.members[i][1] = key][2]

\* Mutation of DumpTrial: concept and category change places.
DumpTrial_Swapped(t) ==
    JsonObject(<< <<"trial_num", t.trial_num>>, <<"concept", t.category>>,
                  <<"category", t.concept>> >>)

DumpTrial(t) ==
    JsonObject(<< <<"trial_num", t.trial_num>>, <<"concept", t.concept>>,
                  <<"category", t.category>> >>)

LoadTrial(o) ==
    [trial_num |-> Member(o, "trial_num"), concept |-> Member(o, "concept"),
     category |-> Member(o, "category")]

DumpBlocks(all_blocks_trials) ==
    JsonArray([b \in 1..Len(all_blocks_trials) |->
                  JsonArray([i \in 1..Len(all_blocks_trials[b]) |->
                                DumpTrial(all_blocks_trials[b][i])])])

LoadBlocks(a) ==
    [b \in 1..Len(a.items) |->
        [i \in 1..Len(a.items[b].items) |-> LoadTrial(a.items[b].items[i])]]

\* json.dump(randomization_data, f, indent=2) for the saved dictionary.
JsonDump(d) ==
    JsonObject(<<
        <<"all_blocks_trials", DumpBlocks(d.all_blocks_trials)>>,
        <<"config", JsonObject(<<
            <<"N_TRIALS", d.config.N_TRIALS>>,
            <<"N_BLOCKS", d.config.N_BLOCKS>>,
            <<"TRIALS_PER_BLOCK", d.config.TRIALS_PER_BLOCK>>,
            <<"CONCEPTS_CATEGORY_A", JsonArray(d.config.CONCEPTS_CATEGORY_A)>>,
            <<"CONCEPTS_CATEGORY_B", JsonArray(d.config.CONCEPTS_CATEGORY_B)>> >>)>>,
        <<"metadata", JsonObject(<<
            <<"participant_id", d.metadata.participant_id>>,
            <<"timestamp", d.metadata.timestamp>> >>)>>,
        <<"saved_at", d.saved_at>>,
        <<"participant_id", d.participant_id>> >>)

\* json.load(f)
JsonLoad(doc) ==
    LET c == Member(doc, "config")
        md == Member(doc, "metadata")
    IN [all_blocks_trials |-> LoadBlocks(Member(doc, "all_blocks_trials")),
        config |-> [N_TRIALS |-> Member(c, "N_TRIALS"),
                    N_BLOCKS |-> Member(c, "N_BLOCKS"),
                    TRIALS_PER_BLOCK |-> Member(c, "TRIALS_PER_BLOCK"),
                    CONCEPTS_CATEGORY_A |-> Member(c, "CONCEPTS_CATEGORY_A").items,
                    CONCEPTS_CATEGORY_B |-> Member(c, "CONCEPTS_CATEGORY_B").items],
        metadata |-> [participant_id |-> Member(md, "participant_id"),
                      timestamp |-> Member(md, "timestamp")],
        saved_at |-> Member(doc, "saved_at"),
        participant_id |-> Member(doc, "participant_id")]

\* randomization_data['saved_at'] = now; ['participant_id'] = participant_id
WithSaveFields(d, participant_id, now) ==
    [all_blocks_trials |-> d.all_blocks_trials, config |-> d.config,
     metadata |-> d.metadata, saved_at |-> now, participant_id |-> participant_id]

\* open(filepath, 'w') + json.dump: the file name depends only on the subject
\* folder and the participant, so a second save overwrites the first.
save_randomization_protocol(file, randomization_data, participant_id, now) ==
    <<JsonDump(WithSaveFields(randomization_data, participant_id, now))>>

\* None is modelled as <<>>.
load_randomization_protocol(file) ==
    IF file = <<>> THEN <<>> ELSE <<JsonLoad(file[1])>>

\* get_block_trials_from_protocol: <<ok, trials>>; ok is FALSE on ValueError.
get_block_trials_from_protocol(protocol, block_num) ==
    IF block_num < 0 \/ block_num >= Len(protocol.all_blocks_trials)
    THEN [ok |-> FALSE, trials |-> <<>>]
    ELSE [ok |-> TRUE, trials |-> protocol.all_blocks_trials[block_num + 1]]

(***************************************************************************)
(* Ground-Truth Expander (scripts/generate_ground_truth_triggers.py),      *)
(* with the code functions that script defines for itself.                 *)
(***************************************************************************)
gt_get_trial_start_code(trial_num) == 100 + trial_num

gt_get_trial_end_code(trial_num) == 200 + trial_num

gt_get_block_start_code(block_num) == 60 + block_num

gt_get_block_end_code(block_num) == 70 + block_num

gt_get_beep_code(beep_num) == 30 + beep_num

GtEntry(code, type, block_num, trial_num) ==
    [trigger_code |-> code, trigger_type |-> type,
     block_num |-> block_num, trial_num |-> trial_num]

\* The entries of one trial: start, fixation, concept, beep start, beeps, end.
GtTrial(trial_spec, global_trial_num, block_num, n_beeps) ==
    <<GtEntry(gt_get_trial_start_code(global_trial_num), "trial_start",
              block_num, global_trial_num),
      GtEntry(TRIGGER_CODES.fixation, "fixation", block_num, global_trial_num),
      GtEntry(IF trial_spec.category = "A" THEN TRIGGER_CODES.concept_category_a
              ELSE TRIGGER_CODES.concept_category_b,
              "concept", block_num, global_trial_num),
      GtEntry(TRIGGER_CODES.beep_start, "beep_start", block_num, global_trial_num)>>
    \o [b \in 1..n_beeps |->
            GtEntry(gt_get_beep_code(b), "beep", block_num, global_trial_num)]
    \o <<GtEntry(gt_get_trial_end_code(global_trial_num), "trial_end",
                 block_num, global_trial_num)>>

RECURSIVE GtTrials(_, _, _, _, _)
GtTrials(block_trials, trial_idx, global_trial_start, block_num, n_beeps) ==
    IF trial_idx >= Len(block_trials) THEN <<>>
    ELSE GtTrial(block_trials[trial_idx + 1], global_trial_start + trial_idx,
                 block_num, n_beeps)
         \o GtTrials(block_trials, trial_idx + 1, global_trial_start, block_num, n_beeps)

\* sum(len(bt) for bt in all_blocks_trials[:block_idx])
RECURSIVE TrialsBefore(_, _)
TrialsBefore(all_blocks_trials, block_idx) ==
    IF block_idx = 0 THEN 0
    ELSE Len(all_blocks_trials[block_idx]) + TrialsBefore(all_blocks_trials, block_idx - 1)

RECURSIVE GtBlocks(_, _, _)
GtBlocks(all_blocks_trials, block_idx, n_beeps) ==
    IF block_idx >= Len(all_blocks_trials) THEN <<>>
    ELSE LET block_trials == all_blocks_trials[block_idx + 1]
             block_num == block_idx + 1
             global_trial_start == TrialsBefore(all_blocks_trials, block_idx) + 1
             this == IF block_trials = <<>> THEN <<>>
                     ELSE <<GtEntry(gt_get_block_start_code(block_num), "block_start",
                                    block_num, 0)>>
                          \o GtTrials(block_trials, 0, global_trial_start,
                                      block_num, n_beeps)
                          \o <<GtEntry(gt_get_block_end_code(block_num), "block_end",
                                       block_num, 0)>>
         IN this \o GtBlocks(all_blocks_trials, block_idx + 1, n_beeps)

generate_ground_truth_triggers(protocol, n_beeps) ==
    GtBlocks(protocol.all_blocks_trials, 0, n_beeps)

(***************************************************************************)
(* Block runners (semantic_paradigm_live.py, semantic_paradigm_simulation  *)
(* .py).  One run of a runner is one block; `pc` is the place the running  *)
(* process has reached, "idle" when no process runs.  A process that ends  *)
(* loses its objects; the subject folder and the log files stay.           *)
(***************************************************************************)
\* The runners read TRIGGER_CODES['trial_indicator'] and TRIGGER_CODES['mask'];
\* the dictionary of trigger_utils.py has neither key.  They are taken to be
\* two further fixed low codes.
TRIAL_INDICATOR_CODE == 3

MASK_CODE == 25

\* Bounds of the session: runs per session and the configurations offered.
MaxRuns == 2

MaxTrials == 4

MaxBlocks == 2

MaxNBeeps == 1

\* N_BLOCKS as experiment_config.py ships it.
N_BLOCKS_DEFAULT == 10

\* config['N_TRIALS'] and config['N_BLOCKS'], read when a protocol is generated.
Configs == [N_TRIALS : 2..MaxTrials, N_BLOCKS : (1..MaxBlocks) \cup {N_BLOCKS_DEFAULT}]

\* config['N_BEEPS'], read by every run.
BeepChoices == 1..MaxNBeeps

\* How the hardware behaves during one run; the simulation has none.
SessHw(m) == IF m = "live" THEN HwOutcomes ELSE {"ok"}

NoRun ==
    [n_beeps |-> 0, hw |-> "ok", biosemi_conn |-> FALSE, existing_blocks |-> FALSE,
     block_num |-> NoBlock, protocol |-> <<>>, block_trials |-> <<>>,
     global_trial_start |-> 0, trial_idx |-> 0, phase |-> 0,
     interrupted |-> FALSE, n_done |-> 0]

Call(code, name) == [code |-> code, name |-> name]

\* Mutation of TrialSends: the beeps are sent last beep first.
TrialSends_BeepsReversed(trial_spec, trial_num, n_beeps) ==
    LET beep_trigger_codes == get_beep_codes(n_beeps, MAX_BEEPS)
    IN <<Call(get_trial_start_code(trial_num),
              "trial_" \o ToString(trial_num) \o "_start"),
         Call(TRIAL_INDICATOR_CODE, "trial_indicator_" \o ToString(trial_num)),
         Call(IF trial_spec.category = "A" THEN TRIGGER_CODES.concept_category_a
              ELSE TRIGGER_CODES.concept_category_b,
              "concept_" \o trial_spec.concept \o "_category_" \o trial_spec.category),
         Call(MASK_CODE, "mask"),
         Call(TRIGGER_CODES.fixation, "fixation"),
         Call(TRIGGER_CODES.beep_start, "beep_start")>>
       \o (IF beep_trigger_codes = <<ValueError>> THEN <<Call(ValueError, NoName)>>
           ELSE [i \in 1..n_beeps |->
                    Call(beep_trigger_codes[n_beeps + 1 - i],
                         "beep_" \o ToString(n_beeps + 1 - i) \o "_" \o ToString(n_beeps))])
       \o <<Call(get_trial_end_code(trial_num),
                 "trial_" \o ToString(trial_num) \o "_end")>>

\* The send_trigger calls of run_single_trial_* for one trial, in order.  An
\* entry with code ValueError stands for the allocator raising at that point.
TrialSends(trial_spec, trial_num, n_beeps) ==
    LET beep_trigger_codes == get_beep_codes(n_beeps, MAX_BEEPS)
    IN <<Call(get_trial_start_code(trial_num),
              "trial_" \o ToString(trial_num) \o "_start"),
         Call(TRIAL_INDICATOR_CODE, "trial_indicator_" \o ToString(trial_num)),
         Call(IF trial_spec.category = "A" THEN TRIGGER_CODES.concept_category_a
              ELSE TRIGGER_CODES.concept_category_b,
              "concept_" \o trial_spec.concept \o "_category_" \o trial_spec.category),
         Call(MASK_CODE, "mask"),
         Call(TRIGGER_CODES.fixation, "fixation"),
         Call(TRIGGER_CODES.beep_start, "beep_start")>>
       \o (IF beep_trigger_codes = <<ValueError>> THEN <<Call(ValueError, NoName)>>
           ELSE [i \in 1..n_beeps |->
                    Call(beep_trigger_codes[i],
                         "beep_" \o ToString(i) \o "_" \o ToString(n_beeps))])
       \o <<Call(get_trial_end_code(trial_num),
                 "trial_" \o ToString(trial_num) \o "_end")>>

BlockStartName(block_num) == "block_" \o ToString(block_num + 1) \o "_start"

BlockEndName(block_num) == "block_" \o ToString(block_num + 1) \o "_end"

\* The process ends: by return, by an exception that leaves the runner, or by
\* being killed.  `closed` says whether the runner closed the serial port on
\* its way out; the operating system releases it in any case.
\* `log_closed` says whether the runner closed its trigger handler (and with
\* it the mirror log), `saved` how many trials' data it saved to the block
\* folder.
EndRunSaving(reason, closed, log_closed, saved) ==
    /\ pc' = "idle"
    /\ runLog' = Append(runLog, [block_num |-> run.block_num,
                                 n_beeps |-> run.n_beeps,
                                 exit |-> reason,
                                 port_closed |-> closed \/ serial_port # "open",
                                 log_closed |-> log_closed,
                                 saved |-> saved])
    /\ run' = NoRun
    /\ serial_port' = "None"
    /\ handler' = NoHandler
    /\ calls' = <<>>

\* An exit that neither closes the handler nor saves data.
EndRun(reason, closed) == EndRunSaving(reason, closed, FALSE, 0)

otherVars == <<allocVars, alignVars, genVars, trackVars, parcelVars>>

\* A new subject and the runner `m` ("live" or "sim") used for its session.
SessInit(m) ==
    /\ mode = m
    /\ blocks = {}
    /\ protocolFile = <<>>
    /\ pc = "idle"
    /\ run = NoRun
    /\ runLog = <<>>
    /\ nSaves = 0
    /\ started = <<>>
    /\ dispatched = <<>>
    /\ handler = NoHandler
    /\ serial_port = "None"
    /\ csvFiles = <<>>
    /\ hwTrace = <<>>
    /\ calls = <<>>

SessIdle ==
    /\ mode = "none"
    /\ blocks = {}
    /\ protocolFile = <<>>
    /\ pc = "idle"
    /\ run = NoRun
    /\ runLog = <<>>
    /\ nSaves = 0
    /\ started = <<>>
    /\ dispatched = <<>>

\* Every run of the session so far has completed its block.
CleanSoFar == \A i \in 1..Len(runLog) : runLog[i].exit = "complete"

\* The runner is started; the live runner opens the serial port first.  The
\* hardware trace is that of the new process; the dispatch history restarts
\* unless every earlier run completed its block.
StartRun ==
    /\ pc = "idle"
    /\ Len(runLog) < MaxRuns
    /\ \E n_beeps \in BeepChoices, hw \in SessHw(mode) :
        run' = [NoRun EXCEPT !.n_beeps = n_beeps, !.hw = hw,
                             !.biosemi_conn = (mode = "live")]
    /\ serial_port' = IF mode = "live" THEN "open" ELSE serial_port
    /\ pc' = "setup"
    /\ hwTrace' = <<>>
    /\ dispatched' = IF CleanSoFar THEN dispatched ELSE <<>>
    /\ UNCHANGED <<mode, blocks, protocolFile, runLog, nSaves, started,
                   handler, csvFiles, calls, otherVars>>

\* open_serial_port returns None: the live runner returns {} at once.
OpenPortFails ==
    /\ pc = "idle"
    /\ mode = "live"
    /\ Len(runLog) < MaxRuns
    /\ runLog' = Append(runLog, [block_num |-> NoBlock, n_beeps |-> 0,
                                 exit |-> "no_port", port_closed |-> TRUE,
                                 log_closed |-> FALSE, saved |-> 0])
    /\ UNCHANGED <<mode, blocks, protocolFile, pc, run, nSaves, started, dispatched,
                   dispVars, otherVars>>

\* datetime.now() as seen by the session: the number of runs ended so far.
Now == Len(runLog)

\* Mutation of NeedsGeneration: decide by the protocol file, not the folders.
NeedsGeneration_ByFile(existing_blocks, protocol_file) == protocol_file = <<>>

\* `if not existing_blocks:` -- a protocol is generated exactly when the
\* subject has no block folder.
NeedsGeneration(existing_blocks, protocol_file) == existing_blocks = <<>>

\* First run: generate all blocks, save the protocol, block_num = 0.
GenerateProtocol ==
    /\ pc = "setup"
    /\ NeedsGeneration(find_block_folders(IterDir(blocks)), protocolFile)
    /\ \E cfg \in Configs : \E p \in GeneratedProtocols(cfg) :
        /\ protocolFile' = save_randomization_protocol(protocolFile, p,
                                                        PARTICIPANT_ID, Now)
        /\ run' = [run EXCEPT !.existing_blocks = FALSE, !.block_num = 0,
                              !.protocol = <<p>>]
    /\ nSaves' = nSaves + 1
    /\ pc' = IF mode = "live" THEN "folder" ELSE "handler"
    /\ UNCHANGED <<mode, blocks, runLog, started, dispatched, dispVars, otherVars>>

\* A check that never finds the session finished.
NoBlocksLeft_Never(block_num, n_blocks) == FALSE

\* `if block_num >= n_blocks:` -- every block of the protocol has its folder.
NoBlocksLeft(block_num, n_blocks) == block_num >= n_blocks

\* Later runs: load the protocol, take the next block number.  A missing
\* protocol is a RuntimeError; a finished session is a ValueError in the live
\* runner and, in the simulation, a return that only a verbose run reaches.
LoadProtocol ==
    /\ pc = "setup"
    /\ ~NeedsGeneration(find_block_folders(IterDir(blocks)), protocolFile)
    /\ \E verbose \in BOOLEAN :
       LET protocol == load_randomization_protocol(protocolFile)
           next_block_num == get_next_block_number(IterDir(blocks))
       IN IF protocol = <<>>
          THEN /\ EndRun("RuntimeError", FALSE)
          ELSE IF /\ NoBlocksLeft(next_block_num, protocol[1].config.N_BLOCKS)
                  /\ (mode = "live" \/ verbose)
               THEN /\ EndRun(IF mode = "live" THEN "ValueError" ELSE "all_complete",
                              FALSE)
               ELSE /\ run' = [run EXCEPT !.existing_blocks = TRUE,
                                          !.block_num = next_block_num,
                                          !.protocol = protocol]
                    /\ pc' = IF mode = "live" THEN "folder" ELSE "handler"
                    /\ UNCHANGED <<runLog, serial_port, handler, calls>>
    /\ UNCHANGED <<mode, blocks, protocolFile, nSaves, started, dispatched,
                   csvFiles, hwTrace, otherVars>>

\* Live runner: the block folder is created before the block runs.
EnsureBlockFolder ==
    /\ pc = "folder"
    /\ blocks' = ensure_block_folder(blocks, run.block_num)
    /\ pc' = "handler"
    /\ UNCHANGED <<mode, protocolFile, run, runLog, nSaves, started, dispatched,
                   dispVars, otherVars>>

\* The mirror log of a run: the live runner names it after the subject
\* folder (one file per session), the simulation after the current time.
CsvLogPath(m, files) == IF m = "live" THEN 1 ELSE Len(files) + 1

\* create_trigger_handler(...): opens the mirror log for writing.
CreateHandler ==
    /\ pc = "handler"
    /\ LET csv_log_path == CsvLogPath(mode, csvFiles)
       IN /\ handler' = NewHandler(mode = "live", run.biosemi_conn, csv_log_path, FALSE)
          /\ csvFiles' = OpenCsvForWriting(csvFiles, csv_log_path)
    /\ calls' = <<>>
    /\ pc' = IF mode = "live" THEN "block_start" ELSE "warmup"
    /\ UNCHANGED <<mode, blocks, protocolFile, run, runLog, nSaves, started,
                   dispatched, serial_port, hwTrace, otherVars>>

\* Live runner: the block-start code goes straight to send_biosemi_trigger.
LiveBlockStart ==
    /\ pc = "block_start"
    /\ LET block_start_code == get_block_start_code(run.block_num + 1)
       IN IF block_start_code = ValueError
          THEN /\ EndRun("ValueError", FALSE)
               /\ UNCHANGED <<hwTrace, dispatched, started>>
          ELSE /\ hwTrace' = hwTrace
                      \o send_biosemi_trigger(serial_port, block_start_code, run.hw).ops
               /\ dispatched' = Append(dispatched, block_start_code)
               /\ started' = Append(started, run.block_num)
               /\ pc' = "warmup"
               /\ UNCHANGED <<run, runLog, serial_port, handler, calls>>
    /\ UNCHANGED <<mode, blocks, protocolFile, nSaves, csvFiles, otherVars>>

\* The trial list of this run's block: the list just generated on a first
\* run, otherwise get_block_trials_from_protocol of the loaded protocol.
BlockTrialsOf(r) ==
    IF ~r.existing_blocks
    THEN [ok |-> TRUE, trials |-> r.protocol[1].all_blocks_trials[r.block_num + 1]]
    ELSE get_block_trials_from_protocol(r.protocol[1], r.block_num)

\* global_trial_start = block_num * trials_per_block + 1
GlobalTrialStart(block_num, block_trials) == block_num * Len(block_trials) + 1

\* Window, metadata, warning and countdown pass; the trial list is selected.
Warmup ==
    /\ pc = "warmup"
    /\ LET bt == BlockTrialsOf(run)
       IN IF ~bt.ok
          THEN /\ EndRun("ValueError", FALSE)
          ELSE /\ run' = [run EXCEPT !.block_trials = bt.trials,
                              !.global_trial_start =
                                  GlobalTrialStart(run.block_num, bt.trials)]
               /\ pc' = "begin"
               /\ UNCHANGED <<runLog, serial_port, handler, calls>>
    /\ UNCHANGED <<mode, blocks, protocolFile, nSaves, started, dispatched,
                   csvFiles, hwTrace, otherVars>>

\* Escape during the warning or the countdown: the runner returns {}; the
\* live runner closes the Biosemi connection first.
WarmupEscape ==
    /\ pc = "warmup"
    /\ BlockTrialsOf(run).ok
    /\ EndRun("escape", TRUE)
    /\ UNCHANGED <<mode, blocks, protocolFile, nSaves, started, dispatched,
                   csvFiles, hwTrace, otherVars>>

\* Live runner: the block start sent earlier is written to the mirror log
\* through _log_trigger_to_csv, flagged as sent.
LiveLogBlockStart ==
    /\ pc = "begin"
    /\ mode = "live"
    /\ csvFiles' = log_trigger_to_csv(csvFiles, handler,
                                      get_block_start_code(run.block_num + 1),
                                      BlockStartName(run.block_num), TRUE)
    /\ pc' = IF run.block_trials = <<>> THEN "block_end" ELSE "loop"
    /\ UNCHANGED <<mode, blocks, protocolFile, run, runLog, nSaves, started,
                   dispatched, handler, serial_port, hwTrace, calls, otherVars>>

\* Simulation: the block start goes through send_trigger.
SimBlockStart ==
    /\ pc = "begin"
    /\ mode = "sim"
    /\ LET block_start_code == get_block_start_code(run.block_num + 1)
       IN IF block_start_code = ValueError
          THEN /\ EndRun("ValueError", TRUE)
               /\ UNCHANGED <<csvFiles, hwTrace, dispatched, started>>
          ELSE /\ SendTrigger(block_start_code, BlockStartName(run.block_num), run.hw)
               /\ dispatched' = Append(dispatched, block_start_code)
               /\ started' = Append(started, run.block_num)
               /\ pc' = IF run.block_trials = <<>> THEN "block_end" ELSE "loop"
               /\ UNCHANGED <<run, runLog, serial_port>>
    /\ UNCHANGED <<mode, blocks, protocolFile, nSaves, otherVars>>

\* Escape seen at the top of the trial loop: the loop is left.
TrialEscape ==
    /\ pc = "loop"
    /\ run' = [run EXCEPT !.interrupted = TRUE]
    /\ pc' = "block_end"
    /\ UNCHANGED <<mode, blocks, protocolFile, runLog, nSaves, started, dispatched,
                   dispVars, otherVars>>

\* One send_trigger call of the current trial (run_single_trial_*).  An
\* allocator ValueError is caught by the live runner's try block and leaves
\* the simulation as an uncaught exception.
TrialStep ==
    /\ pc \in {"loop", "trial"}
    /\ LET k == IF pc = "loop" THEN 1 ELSE run.phase
           global_trial_num == run.global_trial_start + run.trial_idx
           sends == TrialSends(run.block_trials[run.trial_idx + 1],
                               global_trial_num, run.n_beeps)
           s == sends[k]
       IN IF s.code = ValueError
          THEN /\ UNCHANGED <<csvFiles, hwTrace, dispatched>>
               /\ IF mode = "live"
                  THEN /\ run' = [run EXCEPT !.interrupted = TRUE]
                       /\ pc' = "finish"
                       /\ UNCHANGED <<runLog, serial_port, handler, calls>>
                  ELSE EndRun("ValueError", TRUE)
          ELSE /\ SendTrigger(s.code, s.name, run.hw)
               /\ dispatched' = Append(dispatched, s.code)
               /\ IF k < Len(sends)
                  THEN /\ run' = [run EXCEPT !.phase = k + 1]
                       /\ pc' = "trial"
                  ELSE /\ run' = [run EXCEPT !.phase = 0]
                       /\ pc' = "rest"
               /\ UNCHANGED <<runLog, serial_port>>
    /\ UNCHANGED <<mode, blocks, protocolFile, nSaves, started, otherVars>>

\* The rest period after the trial-end trigger passes; run_single_trial_*
\* returns and the trial's data joins trial_data_list.
TrialRest ==
    /\ pc = "rest"
    /\ run' = [run EXCEPT !.trial_idx = run.trial_idx + 1,
                          !.n_done = run.n_done + 1]
    /\ pc' = IF run.trial_idx + 1 < Len(run.block_trials) THEN "loop" ELSE "block_end"
    /\ UNCHANGED <<mode, blocks, protocolFile, runLog, nSaves, started, dispatched,
                   dispVars, otherVars>>

\* A block end that is sent whether or not the block was interrupted.
BlockEnd_IgnoresInterrupt ==
    /\ pc = "block_end"
    /\ LET block_end_code == get_block_end_code(run.block_num + 1)
       IN IF block_end_code = ValueError
          THEN /\ UNCHANGED <<csvFiles, hwTrace, dispatched>>
               /\ IF mode = "live"
                  THEN /\ run' = [run EXCEPT !.interrupted = TRUE]
                       /\ pc' = "finish"
                       /\ UNCHANGED <<runLog, serial_port, handler, calls>>
                  ELSE EndRun("ValueError", TRUE)
          ELSE /\ SendTrigger(block_end_code, BlockEndName(run.block_num), run.hw)
               /\ dispatched' = Append(dispatched, block_end_code)
               /\ pc' = "finish"
               /\ UNCHANGED <<run, runLog, serial_port>>
    /\ UNCHANGED <<mode, blocks, protocolFile, nSaves, started, otherVars>>

\* After the loop: the live runner sends the block end only if the block was
\* not interrupted, the simulation always.
BlockEnd ==
    /\ pc = "block_end"
    /\ LET block_end_code == get_block_end_code(run.block_num + 1)
       IN IF mode = "live" /\ run.interrupted
          THEN /\ pc' = "finish"
               /\ UNCHANGED <<run, runLog, dispatched, dispVars>>
          ELSE IF block_end_code = ValueError
          THEN /\ UNCHANGED <<csvFiles, hwTrace, dispatched>>
               /\ IF mode = "live"
                  THEN /\ run' = [run EXCEPT !.interrupted = TRUE]
                       /\ pc' = "finish"
                       /\ UNCHANGED <<runLog, serial_port, handler, calls>>
                  ELSE EndRun("ValueError", TRUE)
          ELSE /\ SendTrigger(block_end_code, BlockEndName(run.block_num), run.hw)
               /\ dispatched' = Append(dispatched, block_end_code)
               /\ pc' = "finish"
               /\ UNCHANGED <<run, runLog, serial_port>>
    /\ UNCHANGED <<mode, blocks, protocolFile, nSaves, started, otherVars>>

\* KeyboardInterrupt or another exception inside the live runner's try block.
Interrupt ==
    /\ mode = "live"
    /\ pc \in {"loop", "trial", "rest", "block_end"}
    /\ run' = [run EXCEPT !.interrupted = TRUE]
    /\ pc' = "finish"
    /\ UNCHANGED <<mode, blocks, protocolFile, runLog, nSaves, started, dispatched,
                   dispVars, otherVars>>

\* The end of a run.  Live (finally): close the handler, save the data,
\* close the Biosemi connection.  Simulation: close the handler, create the
\* block folder, save the data.
Finish ==
    /\ pc = "finish"
    /\ blocks' = IF mode = "sim" THEN ensure_block_folder(blocks, run.block_num)
                 ELSE blocks
    /\ EndRunSaving(IF run.interrupted THEN "interrupted" ELSE "complete", TRUE,
                    TRUE, run.n_done)
    /\ UNCHANGED <<mode, protocolFile, nSaves, started, dispatched,
                   csvFiles, hwTrace, otherVars>>

\* The process dies where it stands (killed, power loss, or an interrupt
\* outside the live runner's try block): nothing more is executed.
Crash ==
    /\ pc # "idle"
    /\ EndRun("killed", FALSE)
    /\ UNCHANGED <<mode, blocks, protocolFile, nSaves, started, dispatched,
                   csvFiles, hwTrace, otherVars>>

\* Between runs the protocol file of a subject with block folders is removed
\* (deleted or moved by the operator).
ProtocolFileLost ==
    /\ pc = "idle"
    /\ blocks # {}
    /\ protocolFile # <<>>
    /\ protocolFile' = <<>>
    /\ UNCHANGED <<mode, blocks, pc, run, runLog, nSaves, started, dispatched,
                   dispVars, otherVars>>

(***************************************************************************)
(* Tracker harness: either a subject folder is listed and queried, or a    *)
(* generated protocol is saved and loaded back.                            *)
(***************************************************************************)
\* Bound of the tracker harness: block folders Block_0000..Block_<MaxDirBlock>.
MaxDirBlock == 2

\* What a subject folder may hold: block folders, a file named like one, a
\* folder with too few digits, a folder with another stem.
TrackEntries ==
    {get_block_folder_path(n) : n \in 0..MaxDirBlock}
        \cup {DirEntry("Block_", 4, MaxDirBlock + 1, FALSE),
              DirEntry("Block_", 3, MaxDirBlock + 2, TRUE),
              DirEntry("block_", 4, MaxDirBlock + 3, TRUE)}

\* iterdir() yields every entry once, in no particular order.
Listings ==
    {l \in SeqsUpTo(TrackEntries, Cardinality(TrackEntries)) :
        \A i, j \in 1..Len(l) : i # j => l[i] # l[j]}

\* Every folder found at the start holds a data file.
InitialContents(listing) ==
    [i \in 1..Len(listing) |-> IF listing[i].is_dir THEN {"data"} ELSE {}]

TrackInit ==
    /\ \/ /\ subjectDir \in Listings
          /\ genProtocol = <<>>
          /\ trkPc = "dir"
       \/ /\ subjectDir = <<>>
          /\ \E cfg \in Configs : \E p \in GeneratedProtocols(cfg) :
                genProtocol = <<p>>
          /\ trkPc = "proto"
    /\ foundBlocks = <<>>
    /\ nextBlock = NoBlock
    /\ trkFile = <<>>
    /\ loaded = <<>>
    /\ dirContents = InitialContents(subjectDir)
    /\ ensured = <<>>

TrackIdle ==
    /\ subjectDir = <<>>
    /\ genProtocol = <<>>
    /\ trkPc = "idle"
    /\ foundBlocks = <<>>
    /\ nextBlock = NoBlock
    /\ trkFile = <<>>
    /\ loaded = <<>>
    /\ dirContents = InitialContents(subjectDir)
    /\ ensured = <<>>

\* ensure_block_folder is called, up to twice, for a block number that may
\* or may not have a folder, or may be taken by a file.
TrackEnsure ==
    /\ trkPc \in {"dir", "ensured"}
    /\ \E block_num \in {0, MaxDirBlock + 1}, pos \in {1, Len(subjectDir) + 1} :
        LET r == ensure_block_folder_in([listing |-> subjectDir,
                                         contents |-> dirContents], block_num, pos)
        IN /\ subjectDir' = r.dir.listing
           /\ dirContents' = r.dir.contents
           /\ ensured' = Append(ensured, [block_num |-> block_num, ok |-> r.ok,
                                          path |-> r.path])
    /\ trkPc' = IF trkPc = "dir" THEN "ensured" ELSE "ensured_again"
    /\ UNCHANGED <<foundBlocks, nextBlock, genProtocol, trkFile, loaded,
                   allocVars, alignVars, dispVars, sessVars, genVars, parcelVars>>

TrackQuery ==
    /\ trkPc \in {"dir", "ensured", "ensured_again"}
    /\ foundBlocks' = find_block_folders(subjectDir)
    /\ nextBlock' = get_next_block_number(subjectDir)
    /\ trkPc' = "queried"
    /\ UNCHANGED <<subjectDir, genProtocol, trkFile, loaded, dirContents, ensured,
                   allocVars, alignVars, dispVars, sessVars, genVars, parcelVars>>

TrackSave ==
    /\ trkPc = "proto"
    /\ \E now \in {1, 2} :
        trkFile' = save_randomization_protocol(trkFile, genProtocol[1],
                                               PARTICIPANT_ID, now)
    /\ trkPc' = "saved"
    /\ UNCHANGED <<subjectDir, foundBlocks, nextBlock, genProtocol, loaded,
                   dirContents, ensured,
                   allocVars, alignVars, dispVars, sessVars, genVars, parcelVars>>

TrackLoad ==
    /\ trkPc = "saved"
    /\ loaded' = load_randomization_protocol(trkFile)
    /\ trkPc' = "loaded"
    /\ UNCHANGED <<subjectDir, foundBlocks, nextBlock, genProtocol, trkFile,
                   dirContents, ensured,
                   allocVars, alignVars, dispVars, sessVars, genVars, parcelVars>>

(***************************************************************************)
(* Parcelling harness (scripts/validate_triggers.py): the mirror log of    *)
(* one complete block is written trial by trial and then parcelled.        *)
(***************************************************************************)
\* Bound of the harness: the number of trials in the block.
MaxParcelTrials == 52

MaxParcelBeeps == 2

\* current_trial_num = None
NoTrial == 0

\* trials[trial_num] = rows
SetEntry(trials, trial_num, rows) ==
    [k \in (DOMAIN trials) \cup {trial_num} |->
        IF k = trial_num THEN rows ELSE trials[k]]

\* The local variables of parcel_triggers_into_trials.
ParcelState(trials, current_trial_num, current_trial_triggers) ==
    [trials |-> trials, current_trial_num |-> current_trial_num,
     current_trial_triggers |-> current_trial_triggers]

\* One pass of the loop body of parcel_triggers_into_trials.
ParcelStep(st, trigger) ==
    LET trigger_code == trigger.trigger_code
    IN IF (151 <= trigger_code /\ trigger_code <= 159)
            \/ (251 <= trigger_code /\ trigger_code <= 259)
       THEN st
       ELSE IF 101 <= trigger_code /\ trigger_code <= 199
       THEN ParcelState(IF st.current_trial_num # NoTrial
                        THEN SetEntry(st.trials, st.current_trial_num,
                                      st.current_trial_triggers)
                        ELSE st.trials,
                        trigger_code - 100, <<trigger>>)
       ELSE IF 201 <= trigger_code /\ trigger_code <= 250
       THEN IF trigger_code - 200 = st.current_trial_num
            THEN ParcelState(SetEntry(st.trials, st.current_trial_num,
                                      Append(st.current_trial_triggers, trigger)),
                             NoTrial, <<>>)
            ELSE IF st.current_trial_num # NoTrial
            THEN [st EXCEPT !.current_trial_triggers = Append(@, trigger)]
            ELSE st
       ELSE IF st.current_trial_num # NoTrial
       THEN [st EXCEPT !.current_trial_triggers = Append(@, trigger)]
       ELSE st

\* `for trigger in triggers:` over rows lo..hi, in order; the state after
\* the first half is inspected, and so computed, before the second half runs.
RECURSIVE ParcelLoop(_, _, _, _)
ParcelLoop(rows, lo, hi, st) ==
    IF lo > hi THEN st
    ELSE IF lo = hi THEN ParcelStep(st, rows[lo])
    ELSE LET mid == (lo + hi) \div 2
             first_half == ParcelLoop(rows, lo, mid, st)
         IN IF first_half.current_trial_num = NoTrial
            THEN ParcelLoop(rows, mid + 1, hi, first_half)
            ELSE ParcelLoop(rows, mid + 1, hi, first_half)

\* parcel_triggers_into_trials(triggers): trial_num -> rows; {} is <<>>.
parcel_triggers_into_trials(rows) ==
    LET st == ParcelLoop(rows, 1, Len(rows), ParcelState(<<>>, NoTrial, <<>>))
    IN IF st.current_trial_num # NoTrial
       THEN SetEntry(st.trials, st.current_trial_num, st.current_trial_triggers)
       ELSE st.trials

\* The trial the generator puts at position t of a block that starts with
\* category `first`: the categories alternate.
ParcelTrialSpec(first, t) ==
    LET category == IF t % 2 = 1 THEN first ELSE IF first = "A" THEN "B" ELSE "A"
    IN [concept |-> IF category = "A" THEN "a1" ELSE "b1", category |-> category]

\* The rows the run writes for trial t.
TrialRows(args, t) ==
    LET sends == TrialSends(ParcelTrialSpec(args.first, t), t, args.n_beeps)
    IN [i \in 1..Len(sends) |-> CsvRow(sends[i].code, sends[i].name, TRUE)]

NoParcelArgs == [n_beeps |-> 0, first |-> "A", n_trials |-> 0]

ParcelIdle ==
    /\ triggers = <<>>
    /\ parcelArgs = NoParcelArgs
    /\ parcels = <<>>
    /\ parcelPc = "idle"

\* The first block of a session has started: its block-start row is written.
ParcelInit ==
    /\ \E n_beeps \in 1..MaxParcelBeeps, first \in {"A", "B"} :
        parcelArgs = [n_beeps |-> n_beeps, first |-> first, n_trials |-> 0]
    /\ triggers = <<CsvRow(get_block_start_code(1), BlockStartName(0), TRUE)>>
    /\ parcels = <<>>
    /\ parcelPc = "trials"

\* The next trial of the block runs to its end and its rows are written.
ParcelEmitTrial ==
    /\ parcelPc = "trials"
    /\ parcelArgs.n_trials < MaxParcelTrials
    /\ parcelArgs' = [parcelArgs EXCEPT !.n_trials = @ + 1]
    /\ triggers' = triggers \o TrialRows(parcelArgs, parcelArgs.n_trials + 1)
    /\ UNCHANGED <<parcels, parcelPc,
                   allocVars, alignVars, dispVars, sessVars, genVars, trackVars>>

\* The block ends after at least one trial: its block-end row is written.
ParcelEmitBlockEnd ==
    /\ parcelPc = "trials"
    /\ parcelArgs.n_trials >= 1
    /\ triggers' = Append(triggers,
                          CsvRow(get_block_end_code(1), BlockEndName(0), TRUE))
    /\ parcelPc' = "complete"
    /\ UNCHANGED <<parcelArgs, parcels,
                   allocVars, alignVars, dispVars, sessVars, genVars, trackVars>>

\* The validator parcels the complete log.
ParcelRun ==
    /\ parcelPc = "complete"
    /\ parcels' = parcel_triggers_into_trials(triggers)
    /\ parcelPc' = "parcelled"
    /\ UNCHANGED <<triggers, parcelArgs,
                   allocVars, alignVars, dispVars, sessVars, genVars, trackVars>>

(***************************************************************************)
(* Specifications                                                          *)
(***************************************************************************)
InitAlloc == AllocInit /\ AlignIdle /\ DispIdle /\ SessIdle /\ GenIdle /\ TrackIdle /\ ParcelIdle

NextAlloc == AllocQuery \/ AllocBeepQuery

SpecAlloc == InitAlloc /\ [][NextAlloc]_vars

InitAlign == AlignInit /\ AllocInit /\ DispIdle /\ SessIdle /\ GenIdle /\ TrackIdle /\ ParcelIdle

NextAlign == Align

SpecAlign == InitAlign /\ [][NextAlign]_vars

InitDisp == DispInit /\ AllocInit /\ AlignIdle /\ SessIdle /\ GenIdle /\ TrackIdle /\ ParcelIdle

NextDisp == DispSend \/ DispOpenPort \/ DispClosePort \/ DispClose

SpecDisp == InitDisp /\ [][NextDisp]_vars

\* The serial port opened, written to and closed in any order.
InitPort == PortInit /\ AllocInit /\ AlignIdle /\ SessIdle /\ GenIdle /\ TrackIdle /\ ParcelIdle

NextPort == PortOpen \/ PortClose \/ DispSend

SpecPort == InitPort /\ [][NextPort]_vars

\* A session of one subject run with the live runner.
Init == SessInit("live") /\ AllocInit /\ AlignIdle /\ GenIdle /\ TrackIdle /\ ParcelIdle

Next ==
    \/ StartRun \/ OpenPortFails \/ GenerateProtocol \/ LoadProtocol
    \/ EnsureBlockFolder \/ CreateHandler \/ LiveBlockStart
    \/ Warmup \/ WarmupEscape \/ LiveLogBlockStart
    \/ TrialEscape \/ TrialStep \/ TrialRest \/ BlockEnd \/ Interrupt \/ Finish
    \/ Crash \/ ProtocolFileLost

Spec == Init /\ [][Next]_vars

\* The trial loop of a first live run, entered with N_BEEPS up to MaxLoopBeeps:
\* the protocol is saved, Block_0000 exists, the handler and its mirror log
\* are open, and the block start has been sent and logged.
MaxLoopBeeps == 2

LoopInit ==
    /\ mode = "live"
    /\ \E cfg \in Configs, n_beeps \in 1..MaxLoopBeeps, hw \in HwOutcomes :
       \E p \in GeneratedProtocols(cfg) :
        LET trials == p.all_blocks_trials[1]
        IN /\ protocolFile = save_randomization_protocol(<<>>, p, PARTICIPANT_ID, 0)
           /\ run = [NoRun EXCEPT !.n_beeps = n_beeps, !.hw = hw,
                                  !.biosemi_conn = TRUE, !.block_num = 0,
                                  !.protocol = <<p>>, !.block_trials = trials,
                                  !.global_trial_start = GlobalTrialStart(0, trials)]
           /\ pc = IF trials = <<>> THEN "block_end" ELSE "loop"
           /\ hwTrace = send_biosemi_trigger("open", get_block_start_code(1), hw).ops
    /\ handler = NewHandler(TRUE, TRUE, CsvLogPath("live", <<>>), FALSE)
    /\ csvFiles = log_trigger_to_csv(OpenCsvForWriting(<<>>, handler.csv_path), handler,
                                     get_block_start_code(1), BlockStartName(0), TRUE)
    /\ serial_port = "open"
    /\ calls = <<>>
    /\ blocks = ensure_block_folder({}, 0)
    /\ runLog = <<>>
    /\ nSaves = 1
    /\ started = <<0>>
    /\ dispatched = <<get_block_start_code(1)>>

InitLoop == LoopInit /\ AllocInit /\ AlignIdle /\ GenIdle /\ TrackIdle /\ ParcelIdle

NextLoop == TrialEscape \/ TrialStep \/ TrialRest \/ BlockEnd \/ Interrupt \/ Finish

SpecLoop == InitLoop /\ [][NextLoop]_vars

\* A session of one subject run with the simulation runner.
InitSim == SessInit("sim") /\ AllocInit /\ AlignIdle /\ GenIdle /\ TrackIdle /\ ParcelIdle

NextSim ==
    \/ StartRun \/ GenerateProtocol \/ LoadProtocol \/ CreateHandler
    \/ Warmup \/ WarmupEscape \/ SimBlockStart
    \/ TrialEscape \/ TrialStep \/ TrialRest \/ BlockEnd \/ Finish
    \/ Crash \/ ProtocolFileLost

SpecSim == InitSim /\ [][NextSim]_vars

\* Calls of the block generator in one or several interpreter processes.
InitGen == GenInit /\ AllocInit /\ AlignIdle /\ DispIdle /\ SessIdle /\ TrackIdle /\ ParcelIdle

NextGen == GenCalls

SpecGen == InitGen /\ [][NextGen]_vars

\* The tracker's folder queries and the protocol file's round trip.
InitTrack == TrackInit /\ AllocInit /\ AlignIdle /\ DispIdle /\ SessIdle /\ GenIdle
                /\ ParcelIdle

NextTrack == TrackEnsure \/ TrackQuery \/ TrackSave \/ TrackLoad

SpecTrack == InitTrack /\ [][NextTrack]_vars

\* The mirror log of one block, parcelled into trials.
InitParcel == ParcelInit /\ AllocInit /\ AlignIdle /\ DispIdle /\ SessIdle /\ GenIdle
                /\ TrackIdle

NextParcel == ParcelEmitTrial \/ ParcelEmitBlockEnd \/ ParcelRun

SpecParcel == InitParcel /\ [][NextParcel]_vars

(***************************************************************************)
(* Claims about the Code Allocator                                         *)
(***************************************************************************)
AllocDone == evA # NoEvent

\* C1: the allocator's code sets are pairwise disjoint: two different event
\* identities that the allocator accepts never get the same integer.
C1_CodesDisjoint ==
    (AllocDone /\ evA # evB /\ codeA # ValueError /\ codeB # ValueError)
        => codeA # codeB

\* C2: every code the allocator returns for an index it accepts is a single
\* byte, a value in 0..255.
C2_SingleByte ==
    (AllocDone /\ codeA # ValueError) => codeA \in 0..255

\* The index of a queried event lies outside the range its function supports.
OutOfRange(e) ==
    CASE e[1] \in {"trial_start", "trial_end"} -> e[2] < 1 \/ e[2] > 99
      [] e[1] \in {"block_start", "block_end"} -> e[2] < 1 \/ e[2] > 9
      [] e[1] = "beep" -> e[2] < 1 \/ e[2] > MAX_BEEPS
      [] OTHER -> FALSE

\* C21: a call with an index outside the supported range raises and returns
\* no code: trial number outside 1..99, block number outside 1..9, beep
\* number or beep count outside 1..max_beeps.
C21_OutOfRangeRaises ==
    /\ AllocDone =>
        /\ OutOfRange(evA) => codeA = ValueError
        /\ OutOfRange(evB) => codeB = ValueError
    /\ (beepCall # NoBeepCall
            /\ (beepCall.n < 1 \/ beepCall.n > beepCall.max_beeps)) =>
        /\ beepCall.code = ValueError
        /\ beepCall.codes = <<ValueError>>

\* C21 witness: a block-end query one past the last supported block.
C21_Witness ==
    /\ AllocDone
    /\ evA = <<"block_end", MAX_BLOCK_NUM + 1>>
    /\ codeA = ValueError

(***************************************************************************)
(* Claims about the Trigger Dispatcher                                     *)
(***************************************************************************)
\* Row i of a log carries the code and the label of call i.
RowsMirrorCalls(rows) ==
    /\ Len(rows) = Len(calls)
    /\ \A i \in 1..Len(calls) :
        /\ rows[i].trigger_code = calls[i].code
        /\ calls[i].name # NoName => rows[i].event_name = calls[i].name

IsPrefix(s, t) == Len(s) <= Len(t) /\ \A i \in 1..Len(s) : s[i] = t[i]

\* C4: the mirror log of a session is append-only across runs: every row
\* written during an earlier block is still in its place after any later
\* step, including a later run opening the log again.
C4_MirrorLogAppendOnly ==
    [][\A f \in 1..Len(csvFiles) : IsPrefix(csvFiles[f], csvFiles'[f])]_vars

\* C5: over any sequence of runs, interrupted ones included, each started
\* block index is greater than every block index started before it.
C5_NoBlockStartedTwice ==
    \A i, j \in 1..Len(started) : i < j => started[i] < started[j]

\* C6: the protocol is saved once, by the first run, and no later run
\* generates or saves a protocol again.
C6_ProtocolWrittenOnce == nSaves <= 1

\* C7: when a run finds block folders but no protocol file, its next step
\* ends it with a fatal error: no protocol is saved, no block folder made,
\* no mirror log opened or written, nothing sent to the hardware.
C7_OrphanBlocksFatal ==
    [][(pc = "setup" /\ blocks # {} /\ protocolFile = <<>>)
        => /\ pc' = "idle"
           /\ runLog'[Len(runLog')].exit \in {"RuntimeError", "killed"}
           /\ UNCHANGED <<blocks, protocolFile, nSaves, csvFiles, hwTrace,
                          started, dispatched>>]_vars

\* C7 witness: a run has ended with RuntimeError for a subject that has
\* block folders and no protocol file.
C7_Witness ==
    /\ runLog # <<>>
    /\ runLog[Len(runLog)].exit = "RuntimeError"
    /\ blocks # {}
    /\ protocolFile = <<>>
    /\ nSaves = 1

\* Every block of the persisted protocol has been run, in order, by a run
\* that completed, all runs with the same number of beeps.
SessionRunToCompletion ==
    /\ pc = "idle"
    /\ protocolFile # <<>>
    /\ nSaves = 1
    /\ Len(runLog) = load_randomization_protocol(protocolFile)[1].config.N_BLOCKS
    /\ \A i \in 1..Len(runLog) :
        /\ runLog[i].exit = "complete"
        /\ runLog[i].block_num = i - 1
        /\ runLog[i].n_beeps = runLog[1].n_beeps

CodesOf(entries) == [i \in 1..Len(entries) |-> entries[i].trigger_code]

\* C8: for every protocol and beep count, the code sequence of the
\* Ground-Truth Expander equals, element by element, the sequence of codes
\* dispatched by complete, uninterrupted runs of all blocks in order.
C8_GroundTruthMatchesDispatch ==
    SessionRunToCompletion =>
        dispatched = CodesOf(generate_ground_truth_triggers(
                                 load_randomization_protocol(protocolFile)[1],
                                 runLog[1].n_beeps))

(***************************************************************************)
(* Claims about the Validator/Aligner                                      *)
(***************************************************************************)
\* The strict two-pointer procedure the claim describes: TRUE where the
\* expected entry is matched, FALSE where it is dropped.
RECURSIVE TwoPointer(_, _, _, _)
TwoPointer(e, o, i, j) ==
    IF i > Len(e) THEN <<>>
    ELSE IF j <= Len(o) /\ e[i] = o[j]
         THEN <<TRUE>> \o TwoPointer(e, o, i + 1, j + 1)
         ELSE <<FALSE>> \o TwoPointer(e, o, i + 1, j)

\* The observed position of the last match before expected entry i (0: none).
PrevMatch(al, i) ==
    LET ms == {al[k].match_idx : k \in {k \in 1..(i - 1) : al[k].position_match}}
    IN IF ms = {} THEN 0 ELSE MaxOf(ms)

RECURSIVE DeleteAt(_, _, _)
DeleteAt(e, D, i) ==
    IF i > Len(e) THEN <<>>
    ELSE (IF i \in D THEN <<>> ELSE <<e[i]>>) \o DeleteAt(e, D, i + 1)

\* C11: when observed is expected with some entries deleted, the validator
\* reports exactly the deletions: matched = |observed|, missing (dropped) =
\* number of deleted entries, extra (spurious) = 0; the drop rate
\* missing / total_expected is then deleted / expected.
C11_DeletionsReportedExactly ==
    alignPc = "done" =>
        \A D \in SUBSET (1..Len(expected)) :
            observed = DeleteAt(expected, D, 1) =>
                LET st == ValidationStats(alignments, observed)
                IN /\ st.total_expected = Len(expected)
                   /\ st.matched = Len(observed)
                   /\ st.missing = Cardinality(D)
                   /\ st.extra = 0

\* C12: when observed is expected followed by k extra codes, every expected
\* entry is matched (entry i to observed entry i), exactly k observed entries
\* are extra, and nothing is missing (drop rate 0).
C12_TrailingExtras ==
    alignPc = "done" =>
        \A k \in 0..Len(observed) :
            (/\ Len(observed) = Len(expected) + k
             /\ SubSeq(observed, 1, Len(expected)) = expected) =>
                LET st == ValidationStats(alignments, observed)
                IN /\ \A i \in 1..Len(expected) :
                        /\ alignments[i].code_match
                        /\ alignments[i].match_idx = i
                   /\ st.matched = Len(expected)
                   /\ st.extra = k
                   /\ st.missing = 0

\* C12 witness: an aligned pair in which observed is the expected sequence
\* (two entries or more) followed by an extra code that also occurs in it.
C12_Witness ==
    /\ alignPc = "done"
    /\ Len(expected) >= 2
    /\ Len(observed) > Len(expected)
    /\ SubSeq(observed, 1, Len(expected)) = expected
    /\ \E i \in 1..Len(expected) : expected[i] = observed[Len(observed)]
    /\ ValidationStats(alignments, observed).extra = Len(observed) - Len(expected)

(***************************************************************************)
(* Claims about the Protocol Generator                                     *)
(***************************************************************************)
CountCategory(trials, category) ==
    Cardinality({i \in 1..Len(trials) : trials[i].category = category})

CountConcept(trials, category, concept) ==
    Cardinality({i \in 1..Len(trials) :
                    trials[i].category = category /\ trials[i].concept = concept})

Items(concepts) == {concepts[i] : i \in 1..Len(concepts)}

\* C13: two calls of create_stratified_block_sequence with identical
\* arguments, made in one interpreter process, return identical trial lists
\* (same length, same concept and category at every position).
C13_SameArgumentsSameTrials ==
    \A i, j \in 1..Len(genCalls) :
        genCalls[i].proc = genCalls[j].proc =>
            genCalls[i].trials = genCalls[j].trials

\* C13 witness: a process has made two calls whose arguments leave the
\* random generator a choice, and both returned the same list.
C13_Witness ==
    /\ Len(genCalls) >= 2
    /\ genCalls[1].proc = genCalls[2].proc
    /\ genCalls[1].trials = genCalls[2].trials
    /\ Cardinality(create_stratified_block_sequence(genArgs.n_trials_per_block,
                       genArgs.concepts_a, genArgs.concepts_b)) > 1

\* C14: a block regenerated in a later process from the same subject id,
\* timestamp, configuration and block index is identical to the block the
\* original process generated.
C14_ReproducibleAcrossProcesses ==
    \A i, j \in 1..Len(genCalls) :
        genCalls[i].proc # genCalls[j].proc =>
            genCalls[i].trials = genCalls[j].trials

\* C15: for every block size n >= 1 the call returns exactly n trials, of
\* which ceil(n/2) are category A and floor(n/2) are category B.
C15_ExactlyNTrials ==
    \A i \in 1..Len(genCalls) :
        LET n == genArgs.n_trials_per_block
        IN /\ Len(genCalls[i].trials) = n
           /\ CountCategory(genCalls[i].trials, "A") = (n + 1) \div 2
           /\ CountCategory(genCalls[i].trials, "B") = n \div 2

\* C16: in every generated block the numbers of category-A and category-B
\* trials differ by at most 1.
C16_CategoriesBalanced ==
    \A i \in 1..Len(genCalls) :
        LET a == CountCategory(genCalls[i].trials, "A")
            b == CountCategory(genCalls[i].trials, "B")
        IN a - b \in {-1, 0, 1}

\* C16 witness: a non-empty block generated from concept lists of different
\* lengths, neither of which divides the category's share.
C16_Witness ==
    /\ Len(genCalls) >= 1
    /\ Len(genCalls[1].trials) >= 4
    /\ Len(genArgs.concepts_a) = 3
    /\ Len(genArgs.concepts_b) = 1
    /\ (genArgs.n_trials_per_block \div 2) % 3 # 0

\* Within one category of a block: with c trials and k items, every item
\* occurs floor(c/k) or floor(c/k)+1 times and exactly c mod k items occur
\* floor(c/k)+1 times; every trial's concept is an item of its category.
ItemsEven(trials, category, concepts) ==
    LET c == CountCategory(trials, category)
        k == Len(concepts)
        extra == {x \in Items(concepts) :
                     CountConcept(trials, category, x) = c \div k + 1}
    IN /\ \A x \in Items(concepts) :
            CountConcept(trials, category, x) \in {c \div k, c \div k + 1}
       /\ Cardinality(extra) = c % k
       /\ \A i \in 1..Len(trials) :
            trials[i].category = category => trials[i].concept \in Items(concepts)

\* C17: in every generated block, within each category, the items' counts
\* are floor(c/k) or floor(c/k)+1 and exactly c mod k items get the extra
\* occurrence.
C17_ItemsEvenWithinCategory ==
    \A i \in 1..Len(genCalls) :
        /\ ItemsEven(genCalls[i].trials, "A", genArgs.concepts_a)
        /\ ItemsEven(genCalls[i].trials, "B", genArgs.concepts_b)

\* C17 witness: a block in which category A has more trials than items and
\* some item, but not every item, got an extra occurrence.
C17_Witness ==
    /\ Len(genCalls) >= 1
    /\ LET c == CountCategory(genCalls[1].trials, "A")
           k == Len(genArgs.concepts_a)
       IN /\ c \div k >= 1
          /\ c % k >= 1
          /\ \E x \in Items(genArgs.concepts_a) :
                CountConcept(genCalls[1].trials, "A", x) = c \div k + 1

RECURSIVE SumLens(_)
SumLens(seqs) ==
    IF seqs = <<>> THEN 0 ELSE Len(Head(seqs)) + SumLens(Tail(seqs))

\* C18: for N >= B >= 1 the saved protocol's block lengths sum to N: every
\* block but the last has floor(N/B) trials, the last N - floor(N/B)*(B-1).
C18_BlockLengthsSumToN ==
    protocolFile # <<>> =>
        LET p == load_randomization_protocol(protocolFile)[1]
            N == p.config.N_TRIALS
            B == p.config.N_BLOCKS
        IN (N >= B /\ B >= 1) =>
            /\ Len(p.all_blocks_trials) = B
            /\ \A b \in 1..(B - 1) : Len(p.all_blocks_trials[b]) = N \div B
            /\ Len(p.all_blocks_trials[B]) = N - (N \div B) * (B - 1)
            /\ SumLens(p.all_blocks_trials) = N

(***************************************************************************)
(* Claims about the Session State Tracker                                  *)
(***************************************************************************)
\* The numbers of the Block_NNNN directories in a listing.
BlockNumbers(listing) ==
    {listing[i].num : i \in {i \in 1..Len(listing) : IsBlockFolder(listing[i])}}

\* C19: get_next_block_number returns 0 without a Block_NNNN directory and
\* the largest block number plus 1 otherwise; find_block_folders returns
\* exactly the block directories, sorted by ascending block number.
C19_NextBlockAndSortedFolders ==
    trkPc = "queried" =>
        LET nums == BlockNumbers(subjectDir)
        IN /\ nextBlock = IF nums = {} THEN 0 ELSE MaxOf(nums) + 1
           /\ Len(foundBlocks) = Cardinality(nums)
           /\ \A i \in 1..Len(foundBlocks) :
                /\ IsBlockFolder(foundBlocks[i])
                /\ \E j \in 1..Len(subjectDir) : subjectDir[j] = foundBlocks[i]
           /\ \A i, j \in 1..Len(foundBlocks) :
                i < j => foundBlocks[i].num < foundBlocks[j].num

\* C19 witness: a folder holding Block_0000 and Block_0002 (a gap), listed
\* in descending order next to an entry that is no block folder; the next
\* block number is 3.
C19_Witness ==
    /\ trkPc = "queried"
    /\ BlockNumbers(subjectDir) = {0, 2}
    /\ Len(subjectDir) = 3
    /\ \E i, j \in 1..Len(subjectDir) :
        i < j /\ subjectDir[i].num = 2 /\ subjectDir[j].num = 0
    /\ nextBlock = 3
    /\ Len(foundBlocks) = 2

ExceedsMaxima(config) ==
    \/ config.N_BLOCKS > MAX_BLOCK_NUM
    \/ config.N_TRIALS > MAX_TRIAL_NUM

\* C22: a run whose configuration exceeds the allocator's maxima is rejected
\* at startup: it dispatches no trigger and runs no trial.
C22_RejectedAtStartup ==
    (run.protocol # <<>> /\ ExceedsMaxima(run.protocol[1].config)) =>
        /\ hwTrace = <<>>
        /\ calls = <<>>
        /\ run.n_done = 0

(***************************************************************************)
(* Claims about one send_trigger call                                      *)
(***************************************************************************)
\* The step is a send_trigger call; NewOps is what it did on the hardware.
SendStep == Len(calls') = Len(calls) + 1

NewOps == SubSeq(hwTrace', Len(hwTrace) + 1, Len(hwTrace'))

SentCode == calls'[Len(calls')].code

ChannelConfigured(h) == h.biosemi_connection \/ (h.use_triggers /\ h.parallel_port)

ChannelOpen(h, port) == h.biosemi_connection => port = "open"

\* A write that went through leaves three operations on its channel.
WriteFailed(ops) == Len(ops) < 3

\* The call returned success = false and logged the attempt with that flag.
ReturnedFalseAndLogged ==
    /\ Len(handler'.trigger_log) = Len(handler.trigger_log) + 1
    /\ handler'.trigger_log[Len(handler'.trigger_log)].trigger_code = SentCode
    /\ handler'.trigger_log[Len(handler'.trigger_log)].sent_to_eeg = FALSE
    /\ handler.csv_writer =>
        LET rows == csvFiles'[handler.csv_path]
        IN /\ Len(rows) = Len(csvFiles[handler.csv_path]) + 1
           /\ rows[Len(rows)].trigger_code = SentCode
           /\ rows[Len(rows)].sent_to_eeg = "no"

\* C23: with no channel configured, a channel that is not open, a code
\* outside 0..255 or a failing hardware write, send_trigger returns
\* success = false and still logs the attempt with the flag false.
C23_FailureReturnsFalseAndLogs ==
    [][SendStep =>
        ((\/ ~ChannelConfigured(handler)
          \/ ~ChannelOpen(handler, serial_port)
          \/ SentCode \notin 0..255
          \/ WriteFailed(NewOps)) => ReturnedFalseAndLogged)]_vars

\* The send goes to the open serial channel / to the parallel port.
SerialSend == SendStep /\ handler.biosemi_connection /\ serial_port = "open"

ParallelSend ==
    SendStep /\ ~handler.biosemi_connection /\ handler.use_triggers /\ handler.parallel_port

\* What the call reported.
Reported == handler'.trigger_log[Len(handler'.trigger_log)].sent_to_eeg

WriteFlushSettle(ops, ch, code) ==
    ops = <<HwOp(ch, "write", code), HwOp(ch, "flush", code), HwOp(ch, "sleep", code)>>

NoSettle(ops) == \A i \in 1..Len(ops) : ops[i].op # "sleep"

\* A send in the claimed order on channel ch: write, flush, settle, success;
\* or a failure without settle delay.
SendInOrder(ch) ==
    IF Reported THEN WriteFlushSettle(NewOps, ch, SentCode) ELSE NoSettle(NewOps)

IsOp(o, ch, op) == o.ch = ch /\ o.op = op

\* Between a flushed serial byte and the next serial byte lies a settle delay.
BetweenSerialWrites ==
    \A i \in 1..Len(hwTrace), j \in 1..Len(hwTrace) :
        (/\ i + 1 < j
         /\ IsOp(hwTrace[i], "serial", "write")
         /\ IsOp(hwTrace[i + 1], "serial", "flush")
         /\ IsOp(hwTrace[j], "serial", "write")) =>
            \E k \in (i + 2)..(j - 1) : IsOp(hwTrace[k], "serial", "sleep")

\* C24 as stated: every send over an open hardware channel, serial or
\* parallel, writes the byte, flushes, holds the settle delay and returns, so
\* a flush and a settle delay separate the bytes of consecutive sends; a
\* failed send has no settle delay and reports failure.
C24_WriteFlushSettleAnyChannel ==
    /\ [][(SerialSend => SendInOrder("serial"))
          /\ (ParallelSend => SendInOrder("parallel"))]_vars
    /\ []BetweenSerialWrites

\* C24 amended: the order write, flush, settle delay, return holds for every
\* send over the open serial channel, a failed serial send has no settle
\* delay and reports failure; a successful send over the parallel port sets
\* the byte, holds it and resets the port to zero, without a flush.
C24_SerialWriteFlushSettle ==
    /\ [][(SerialSend => SendInOrder("serial"))
          /\ ((ParallelSend /\ Reported) =>
                NewOps = <<HwOp("parallel", "write", SentCode),
                           HwOp("parallel", "sleep", SentCode),
                           HwOp("parallel", "write", 0)>>)]_vars
    /\ []BetweenSerialWrites

\* Two successful serial sends in a row, and a failed one.
C24_Witness ==
    /\ \E i \in 1..Len(hwTrace) :
        /\ i < Len(hwTrace)
        /\ IsOp(hwTrace[i], "serial", "sleep")
        /\ IsOp(hwTrace[i + 1], "serial", "write")
    /\ \E k \in 1..Len(handler.trigger_log) : ~handler.trigger_log[k].sent_to_eeg

(***************************************************************************)
(* Claims about the exit paths and the trial sequence of a run             *)
(***************************************************************************)
\* C25: every live run that opened the serial port and ended by a return or
\* by an exception (not by being killed) closed the port on its way out.
C25_PortClosedOnEveryExit ==
    mode = "live" =>
        \A i \in 1..Len(runLog) :
            runLog[i].exit \notin {"no_port", "killed"} => runLog[i].port_closed

\* The block sequences of the protocol on disk.
PersistedBlocks(file) == load_randomization_protocol(file)[1].all_blocks_trials

\* C26: the trial list a run executes for its block is that block's entry of
\* the persisted protocol, and the persisted block sequences are those of the
\* first save: while a protocol exists no run replaces them with a fresh draw.
C26_ExecutesFirstSavedProtocol ==
    /\ []((pc \in {"begin", "loop", "trial", "rest", "block_end", "finish"}
                /\ protocolFile # <<>>) =>
            run.block_trials = PersistedBlocks(protocolFile)[run.block_num + 1])
    /\ [][(protocolFile # <<>> /\ protocolFile' # <<>>) =>
            PersistedBlocks(protocolFile') = PersistedBlocks(protocolFile)]_vars

\* Positions of the byte writes in a call's hardware operations, and the
\* channels the call touched.
WriteIdx(ops) == {i \in 1..Len(ops) : ops[i].op = "write"}

Channels(ops) == {ops[i].ch : i \in 1..Len(ops)}

\* The one channel a handler may use.
ChannelOf(h) == IF h.biosemi_connection THEN "serial" ELSE "parallel"

\* C27 as stated: a send_trigger call causes at most one byte write, on at
\* most one channel: the serial one if a connection was supplied, otherwise
\* the parallel port.
C27_AtMostOneByteWrite ==
    [][SendStep =>
        /\ Cardinality(WriteIdx(NewOps)) <= 1
        /\ Channels(NewOps) \subseteq {ChannelOf(handler)}]_vars

\* C27 amended: a send_trigger call transmits its code at most once on at most
\* one channel; the only other byte it may write is the zero that resets the
\* parallel port after the hold.
C27_AtMostOneTransmission ==
    [][SendStep =>
        /\ Channels(NewOps) \subseteq {ChannelOf(handler)}
        /\ WriteIdx(NewOps) \subseteq {1, 3}
        /\ 1 \in WriteIdx(NewOps) => NewOps[1].code = SentCode
        /\ 3 \in WriteIdx(NewOps) => NewOps[3] = HwOp("parallel", "write", 0)]_vars

\* Two parallel-port sends that went through, each with its reset.
C27_Witness ==
    /\ Len(calls) = 2
    /\ Len(hwTrace) = 6
    /\ hwTrace[3] = HwOp("parallel", "write", 0)
    /\ hwTrace[6] = HwOp("parallel", "write", 0)

(***************************************************************************)
(* Claims about ensure_block_folder                                        *)
(***************************************************************************)
\* The step is an ensure_block_folder call that repeats the call before it.
EnsureAgain ==
    /\ Len(ensured) = 1
    /\ Len(ensured') = 2
    /\ ensured[1].ok
    /\ ensured'[2].block_num = ensured[1].block_num

\* C28: ensure_block_folder called again for the same subject folder and
\* block number returns the same path, leaves the folder and the files in it
\* as they were, and changes neither what find_block_folders nor what
\* get_next_block_number returns.
C28_EnsureIdempotent ==
    [][EnsureAgain =>
        /\ ensured'[2].ok
        /\ ensured'[2].path = ensured[1].path
        /\ subjectDir' = subjectDir
        /\ dirContents' = dirContents
        /\ find_block_folders(subjectDir') = find_block_folders(subjectDir)
        /\ get_next_block_number(subjectDir') = get_next_block_number(subjectDir)]_vars

\* C28 witness: the first call created Block_0000 beside a folder that holds
\* data, the second call was made for Block_0000 again.
C28_Witness ==
    /\ Len(ensured) = 2
    /\ ensured[1].ok
    /\ ensured[2].block_num = ensured[1].block_num
    /\ \E i \in 1..Len(subjectDir) :
        subjectDir[i] = ensured[1].path /\ dirContents[i] = {}
    /\ \E i \in 1..Len(subjectDir) : dirContents[i] # {}

(***************************************************************************)
(* Claims about the order of a generated block                             *)
(***************************************************************************)
\* C29: in every generated block the categories alternate strictly, starting
\* with A, for as long as both categories last (any surplus comes last), and
\* trial_num counts 1, 2, ..., len without gap or repeat.
C29_StrictAlternation ==
    \A c \in 1..Len(genCalls) :
        LET trials == genCalls[c].trials
            paired == Min2(CountCategory(trials, "A"), CountCategory(trials, "B"))
        IN \A k \in 1..Len(trials) :
            /\ trials[k].trial_num = k
            /\ k <= 2 * paired =>
                trials[k].category = (IF k % 2 = 1 THEN "A" ELSE "B")

\* C29 witness: a generated block of at least two pairs.
C29_Witness ==
    /\ Len(genCalls) >= 1
    /\ Len(genCalls[1].trials) >= 4
    /\ genCalls[1].trials[3].category = "A"
    /\ genCalls[1].trials[4].category = "B"

(***************************************************************************)
(* Claims about the order of the triggers of a trial                       *)
(***************************************************************************)
\* Global trial numbers the runs of a session can reach.
TrialNums == 1..(MaxRuns * MaxTrials)

StartCall(t) == Call(get_trial_start_code(t), "trial_" \o ToString(t) \o "_start")

EndCall(t) == Call(get_trial_end_code(t), "trial_" \o ToString(t) \o "_end")

\* Positions in `calls` of trial starts, and the trial started at one.
StartsIn(s) == {i \in 1..Len(s) : \E t \in TrialNums : s[i] = StartCall(t)}

TrialAt(s, i) == CHOOSE t \in TrialNums : s[i] = StartCall(t)

\* A block-level event: block start or block end.
IsBlockCall(c) ==
    \E b \in 1..MAX_BLOCK_NUM :
        c \in {Call(get_block_start_code(b), BlockStartName(b - 1)),
               Call(get_block_end_code(b), BlockEndName(b - 1))}

\* The last position of the stretch that begins with the trial start at i:
\* just before the next trial start, or the end of the stream.
StretchEnd(s, i) ==
    LET later == {j \in StartsIn(s) : j > i}
    IN IF later = {} THEN Len(s) ELSE MinOf(later) - 1

IsBeep(c) == \E k \in 1..MAX_BEEPS : c.code = TRIGGER_CODES.beep_1 + (k - 1)

\* The stretch i..e belongs to trial t alone and is in order.
Bracketed(s, i, e, t, n_beeps) ==
    LET ends == {j \in i..e : \E u \in TrialNums : s[j] = EndCall(u)}
        beeps == {j \in i..e : IsBeep(s[j])}
        bstart == {j \in i..e : s[j] = Call(TRIGGER_CODES.beep_start, "beep_start")}
    IN /\ \A j \in ends :
            /\ s[j] = EndCall(t)
            /\ \A k \in (j + 1)..e : IsBlockCall(s[k])
       /\ Cardinality(ends) <= 1
       /\ \A j \in (i + 1)..e : IsBlockCall(s[j]) => ends # {}
       /\ \A j \in i..e, u \in TrialNums :
            s[j].name = "trial_indicator_" \o ToString(u) => u = t
       /\ Cardinality(bstart) <= 1
       /\ \A j \in beeps : \E b \in bstart : b < j
       /\ \A j \in beeps :
            LET idx == Cardinality({k \in beeps : k <= j})
            IN s[j] = Call(get_beep_code(idx, MAX_BEEPS),
                           "beep_" \o ToString(idx) \o "_" \o ToString(n_beeps))
       /\ Cardinality(beeps) <= n_beeps
       /\ ends # {} => Cardinality(beeps) = n_beeps

C31_GlobalTrialNumbersAgree ==
    (pc \in {"begin", "loop", "trial", "rest"} /\ run.block_trials # <<>>) =>
        run.global_trial_start =
            TrialsBefore(run.protocol[1].all_blocks_trials, run.block_num) + 1

\* The byte for `code` went out on the serial line of this run: written and
\* flushed.
Written(code) ==
    \E i \in 1..Len(hwTrace) :
        /\ i < Len(hwTrace)
        /\ hwTrace[i] = HwOp("serial", "write", code)
        /\ hwTrace[i + 1] = HwOp("serial", "flush", code)

\* C32: every row of a live run's mirror log, the block-start row included,
\* is flagged 'yes' exactly when the byte of its event was written to the
\* hardware successfully.
C32_LogFlagsAreOutcomes ==
    (mode = "live" /\ pc \in {"loop", "trial", "rest", "block_end", "finish"}
        /\ handler.csv_writer) =>
        \A k \in 1..Len(csvFiles[handler.csv_path]) :
            LET row == csvFiles[handler.csv_path][k]
            IN (row.sent_to_eeg = "yes") <=> Written(row.trigger_code)

(* Claims about the end of a live block *)
\* The current run has called send_trigger for its block end.
BlockEndCalled ==
    \E i \in 1..Len(calls) : calls[i].name = BlockEndName(run.block_num)

\* The step with which a live run leaves its finally clause.
LiveFinallyStep ==
    /\ mode = "live"
    /\ pc = "finish"
    /\ Len(runLog') = Len(runLog) + 1
    /\ runLog'[Len(runLog')].exit # "killed"

\* In every exit through the finally clause the handler (and its mirror log)
\* is closed and the data of the trials completed so far is saved.
LogClosedAndDataSaved ==
    [][LiveFinallyStep =>
          /\ runLog'[Len(runLog')].log_closed
          /\ runLog'[Len(runLog')].saved = run.n_done]_vars

PersistedNBlocks == load_randomization_protocol(protocolFile)[1].config.N_BLOCKS

\* A protocol is persisted and every one of its blocks has its folder.
AllBlocksPresent ==
    /\ protocolFile # <<>>
    /\ \A b \in 0..(PersistedNBlocks - 1) : b \in blocks

\* The runner is about to start, or is running, with all block folders
\* present from the start of the run (its block number, if it got one, is
\* past the last block).
InFurtherRun ==
    /\ AllBlocksPresent
    /\ \/ pc \in {"idle", "setup"}
       \/ run.block_num >= PersistedNBlocks

\* C34: once block folders exist for all N_BLOCKS blocks of the persisted
\* protocol, no step of a further run dispatches a trigger, starts a block or
\* a trial, creates a block folder or changes the persisted protocol.
C34_FurtherRunChangesNothing ==
    [][InFurtherRun =>
          /\ dispatched' = dispatched \/ (pc = "idle" /\ dispatched' = <<>>)
          /\ hwTrace' = hwTrace \/ (pc = "idle" /\ hwTrace' = <<>>)
          /\ calls' = calls \/ calls' = <<>>
          /\ started' = started
          /\ pc' \notin {"begin", "loop", "trial", "rest", "block_end", "finish"}
          /\ blocks' = blocks
          /\ (pc # "idle" => protocolFile' = protocolFile)]_vars

\* A further run has ended: the session's last run began with every block
\* folder present and was stopped when it had loaded the protocol.
C34_Witness ==
    /\ AllBlocksPresent
    /\ pc = "idle"
    /\ Len(runLog) >= 2
    /\ runLog[Len(runLog)].block_num = NoBlock
    /\ runLog[Len(runLog)].exit = "ValueError"

(* Claims about the parcelling of a mirror log into trials *)
\* C35: for the mirror log of a complete block whose trials 1..T (T <= 99)
\* each wrote their start code, their events and their end code,
\* parcel_triggers_into_trials returns exactly T entries keyed 1..T, and the
\* entry of trial t is exactly the rows of trial t from its start code to
\* its end code.
C35_ParcelsAreTheTrials ==
    (parcelPc = "parcelled" /\ parcelArgs.n_trials <= 99) =>
        /\ DOMAIN parcels = 1..parcelArgs.n_trials
        /\ \A t \in 1..parcelArgs.n_trials : parcels[t] = TrialRows(parcelArgs, t)

(* Claims about the validation counts *)
\* Expected positions that the alignment matched to an observed entry.
MatchedPositions == {i \in 1..Len(alignments) : alignments[i].position_match}

\* C36: the validation counts are consistent for all expected and observed
\* sequences: matched + missing is the number of expected entries, matched +
\* extra the number of observed entries, no observed entry is matched to more
\* than one expected entry, and the observed positions of the matches
\* increase strictly in expected order.
C36_CountsConsistent ==
    alignPc = "done" =>
        LET st == ValidationStats(alignments, observed)
        IN /\ st.matched + st.missing = Len(expected)
           /\ st.matched + st.extra = Len(observed)
           /\ \A i, j \in MatchedPositions :
                  i # j => alignments[i].match_idx # alignments[j].match_idx
           /\ \A i, j \in MatchedPositions :
                  i < j => alignments[i].match_idx < alignments[j].match_idx

\* An alignment with two matches, a missing expected entry and an extra
\* observed entry.
C36_Witness ==
    /\ alignPc = "done"
    /\ Cardinality(MatchedPositions) >= 2
    /\ ValidationStats(alignments, observed).missing >= 1
    /\ ValidationStats(alignments, observed).extra >= 1

(* Claims about the life of the serial port *)
\* Operation i of the trace found the port open: an open precedes it and no
\* close lies between that open and i.
PortOpenAt(i) ==
    \E j \in 1..(i - 1) :
        /\ IsOp(hwTrace[j], "serial", "open")
        /\ \A k \in (j + 1)..(i - 1) : ~IsOp(hwTrace[k], "serial", "close")

=============================================================================
